---------------------------- MODULE Spec2Model ----------------------------
(***************************************************************************)
(* A model of the GSRF symbol codec (github.com/kis9a/gsrf): the canonical *)
(* parser and formatter (parse.go, symbol.go) and the SSA and stack-trace  *)
(* adapters.                                                               *)
(*                                                                         *)
(* A Go string is modelled as a sequence of bytes.  An ASCII byte is the   *)
(* one-character string that shows it; the four non-ASCII bytes the code   *)
(* handles are the tokens "C2" "B7" (the UTF-8 encoding of U+00B7, the     *)
(* middle dot) and "C3" "82" (the UTF-8 encoding of U+00C2).  A Go slice   *)
(* is a sequence and a Go map the set of its <<key, value>> pairs; a nil   *)
(* slice or map and an empty one are the same value here.                  *)
(***************************************************************************)
EXTENDS Integers, Sequences, FiniteSets, TLC

VARIABLES
    codec,   \* which decode/encode pair the caller uses
    pc,      \* the caller's position
    input,   \* the string handed to the decoder
    res,     \* the decoder's result: [err, sym]
    out,     \* the encoder's output for res.sym
    out2,    \* the output of a second encoder call on the same Symbol
    res2     \* the decoder's result on out

vars == <<codec, pc, input, res, out, out2, res2>>

(***************************************************************************)
(* Bounds of the model.                                                    *)
(***************************************************************************)
MaxLen == 3
MaxIndex == 2

(***************************************************************************)
(* The Go standard library functions the code calls, over byte sequences.  *)
(* Indices are Go's: 0-based, -1 for "not found".                          *)
(***************************************************************************)
Slice(s, i, j) == SubSeq(s, i + 1, j)

SliceFrom(s, i) == SubSeq(s, i + 1, Len(s))

MatchAt(s, sub, i) ==
    /\ i >= 0
    /\ i + Len(sub) <= Len(s)
    /\ \A k \in 1..Len(sub) : s[i + k] = sub[k]

Occurrences(s, sub) == {i \in 0..(Len(s) - Len(sub)) : MatchAt(s, sub, i)}

Index(s, sub) ==
    LET occ == Occurrences(s, sub)
    IN  IF occ = {} THEN -1 ELSE CHOOSE i \in occ : \A j \in occ : i <= j

LastIndex(s, sub) ==
    LET occ == Occurrences(s, sub)
    IN  IF occ = {} THEN -1 ELSE CHOOSE i \in occ : \A j \in occ : i >= j

Contains(s, sub) == Occurrences(s, sub) # {}

HasPrefix(s, sub) == MatchAt(s, sub, 0)

HasSuffix(s, sub) == MatchAt(s, sub, Len(s) - Len(sub))

ContainsAny(s, chars) == \E i \in 1..Len(s) : s[i] \in chars

IsSpace(c) == c = " "

TrimSpace(s) ==
    LET keep == {i \in 1..Len(s) : ~IsSpace(s[i])}
    IN  IF keep = {} THEN <<>>
        ELSE SubSeq(s, CHOOSE i \in keep : \A j \in keep : i <= j,
                       CHOOSE i \in keep : \A j \in keep : i >= j)

\* strings.Split(s, sep) for a one-byte separator
RECURSIVE Split(_, _)
Split(s, sep) ==
    LET i == Index(s, <<sep>>)
    IN  IF i = -1 THEN <<s>>
        ELSE <<Slice(s, 0, i)>> \o Split(SliceFrom(s, i + 1), sep)

\* strings.SplitN(s, sep, 2) for a one-byte separator
SplitN2(s, sep) ==
    LET i == Index(s, <<sep>>)
    IN  IF i = -1 THEN <<s>>
        ELSE <<Slice(s, 0, i), SliceFrom(s, i + 1)>>

RECURSIVE Join(_, _)
Join(parts, sep) ==
    IF parts = <<>> THEN <<>>
    ELSE IF Len(parts) = 1 THEN parts[1]
    ELSE parts[1] \o sep \o Join(Tail(parts), sep)

Digits == <<"0", "1", "2", "3", "4", "5", "6", "7", "8", "9">>

IsDigit(c) == \E d \in 1..10 : Digits[d] = c

DigitValue(c) == (CHOOSE d \in 1..10 : Digits[d] = c) - 1

AllDigits(s) == s # <<>> /\ \A i \in 1..Len(s) : IsDigit(s[i])

RECURSIVE DecimalValue(_)
DecimalValue(s) ==
    IF s = <<>> THEN 0
    ELSE 10 * DecimalValue(SubSeq(s, 1, Len(s) - 1)) + DigitValue(s[Len(s)])

\* strconv.Atoi: an optional sign and at least one decimal digit
Atoi(s) ==
    LET signed == s # <<>> /\ s[1] \in {"+", "-"}
        body   == IF signed THEN Tail(s) ELSE s
    IN  IF AllDigits(body)
        THEN [err |-> FALSE,
              val |-> IF signed /\ s[1] = "-" THEN 0 - DecimalValue(body)
                                              ELSE DecimalValue(body)]
        ELSE [err |-> TRUE, val |-> 0]

\* fmt.Sprintf("%d", n) and strconv.Itoa(n)
RECURSIVE Itoa(_)
Itoa(n) ==
    IF n < 0 THEN <<"-">> \o Itoa(0 - n)
    ELSE IF n < 10 THEN <<Digits[n + 1]>>
    ELSE Itoa(n \div 10) \o <<Digits[(n % 10) + 1]>>

\* how many of the first n bytes of s are byte c
CountIn(s, n, c) == Cardinality({i \in 1..n : s[i] = c})


(***************************************************************************)
(* The Symbol model (symbol.go).  A pointer field (Receiver, and the       *)
(* *Symbol a decoder returns) is a sequence of length 0 (nil) or 1.  The   *)
(* custom metadata map is the set of its <<key, value>> pairs.             *)
(***************************************************************************)
EmptyMetadata == [Via |-> <<>>, Alias |-> <<>>, Position |-> <<>>, Custom |-> {}]

ZeroSymbol ==
    [PackagePath |-> <<>>, Name |-> <<>>, Receiver |-> <<>>,
     IsInit |-> FALSE, IsAnonymous |-> FALSE, AnonParent |-> <<>>,
     AnonIndex |-> 0, TypeParams |-> <<>>, TypeArgs |-> <<>>,
     Context |-> <<>>, Metadata |-> EmptyMetadata]

MakeReceiver(typeName, isPtr, typeArgs) ==
    [TypeName |-> typeName, IsPointer |-> isPtr, TypeArgs |-> typeArgs]

\* m[key] = value on the custom map
MapPut(m, key, value) == {p \in m : p[1] # key} \cup {<<key, value>>}

Ok(sym) == [err |-> FALSE, sym |-> <<sym>>]

Fail == [err |-> TRUE, sym |-> <<>>]

(***************************************************************************)
(* parse.go                                                                *)
(***************************************************************************)
\* the separator Parse searches for: U+00B7 followed by "lit"
ParseLitSep == <<"C2", "B7", "l", "i", "t">>

\* the running '[' ']' count over input[0:idx]
BracketCount(s, idx) == CountIn(s, idx, "[") - CountIn(s, idx, "]")

\* the loop body of the metadata item loop, folded over the items
RECURSIVE ParseMetaParts(_, _)
ParseMetaParts(parts, meta) ==
    IF parts = <<>> THEN meta
    ELSE LET kv == SplitN2(parts[1], ":")
         IN  IF Len(kv) # 2 THEN ParseMetaParts(Tail(parts), meta)
             ELSE LET key   == TrimSpace(kv[1])
                      value == TrimSpace(kv[2])
                      next  ==
                        CASE key = <<"v", "i", "a">> ->
                               [meta EXCEPT !.Via = value]
                          [] key = <<"a", "l", "i", "a", "s">> ->
                               [meta EXCEPT !.Alias = value]
                          [] key = <<"p", "o", "s">> ->
                               [meta EXCEPT !.Position = value]
                          [] OTHER ->
                               [meta EXCEPT !.Custom = MapPut(@, key, value)]
                  IN  ParseMetaParts(Tail(parts), next)

\* phase 1: the trailing {...} block
ExtractMetadata(s) ==
    LET idx == LastIndex(s, <<"{">>)
    IN  IF idx > 0 /\ HasSuffix(s, <<"}">>) /\ BracketCount(s, idx) = 0
        THEN [rest |-> Slice(s, 0, idx),
              meta |-> ParseMetaParts(Split(Slice(s, idx + 1, Len(s) - 1), ","),
                                      EmptyMetadata)]
        ELSE [rest |-> s, meta |-> EmptyMetadata]

\* phase 2: the @context modifier
ExtractContext(s) ==
    LET idx == LastIndex(s, <<"@">>)
    IN  IF idx > 0 /\ BracketCount(s, idx) = 0
        THEN IF SliceFrom(s, idx + 1) = <<>>
             THEN [err |-> TRUE, rest |-> s, context |-> <<>>]
             ELSE [err |-> FALSE, rest |-> Slice(s, 0, idx),
                   context |-> SliceFrom(s, idx + 1)]
        ELSE [err |-> FALSE, rest |-> s, context |-> <<>>]

SplitAt(s, dot) ==
    [err |-> FALSE, packagePath |-> Slice(s, 0, dot),
     symbolPart |-> SliceFrom(s, dot + 1)]

NoSplit == [err |-> TRUE, packagePath |-> <<>>, symbolPart |-> <<>>]

\* phase 3: the package path and the symbol part
SplitPackage(s) ==
    IF Contains(s, <<".", "(">>) /\ ~Contains(s, <<")", ".">>) THEN NoSplit
    ELSE IF Contains(s, <<")", ".">>)
    THEN LET methodSep == LastIndex(s, <<")", ".">>)
             viaParen  == LastIndex(Slice(s, 0, methodSep), <<".", "(">>)
             openParen == Index(s, <<"(">>)
             dot == IF viaParen # -1 THEN viaParen
                    ELSE IF openParen > 0
                         THEN LastIndex(Slice(s, 0, openParen), <<".">>)
                         ELSE -1
         IN  IF dot = -1 THEN NoSplit ELSE SplitAt(s, dot)
    ELSE LET idx == Index(s, <<"[">>)
         IN  IF idx > 0
             THEN LET lastDot == LastIndex(Slice(s, 0, idx), <<".">>)
                  IN  IF lastDot = -1 THEN NoSplit ELSE SplitAt(s, lastDot)
             ELSE LET lastDot == LastIndex(s, <<".">>)
                  IN  IF lastDot = -1 \/ lastDot = 0 \/ lastDot = Len(s) - 1
                      THEN NoSplit ELSE SplitAt(s, lastDot)

\* one step of the loop of parseTypeArgs on byte c
\* a variant that does not track the '(' ')' depth
TypeArgsStepNoParen(st, c) ==
    CASE c = "[" -> [st EXCEPT !.depth = @ + 1, !.current = Append(@, c)]
      [] c = "]" -> [st EXCEPT !.depth = @ - 1, !.current = Append(@, c)]
      [] c = "," ->
           IF st.depth = 0
           THEN [st EXCEPT
                   !.args = IF TrimSpace(st.current) # <<>>
                            THEN Append(@, TrimSpace(st.current)) ELSE @,
                   !.current = <<>>]
           ELSE [st EXCEPT !.current = Append(@, c)]
      [] OTHER -> [st EXCEPT !.current = Append(@, c)]

TypeArgsStep(st, c) ==
    CASE c = "[" -> [st EXCEPT !.depth = @ + 1, !.current = Append(@, c)]
      [] c = "]" -> [st EXCEPT !.depth = @ - 1, !.current = Append(@, c)]
      [] c = "(" -> [st EXCEPT !.parenDepth = @ + 1, !.current = Append(@, c)]
      [] c = ")" -> [st EXCEPT !.parenDepth = @ - 1, !.current = Append(@, c)]
      [] c = "," ->
           IF st.depth = 0 /\ st.parenDepth = 0
           THEN [st EXCEPT
                   !.args = IF TrimSpace(st.current) # <<>>
                            THEN Append(@, TrimSpace(st.current)) ELSE @,
                   !.current = <<>>]
           ELSE [st EXCEPT !.current = Append(@, c)]
      [] OTHER -> [st EXCEPT !.current = Append(@, c)]

RECURSIVE TypeArgsLoop(_, _, _)
TypeArgsLoop(s, i, st) ==
    IF i > Len(s) THEN st ELSE TypeArgsLoop(s, i + 1, TypeArgsStep(st, s[i]))

parseTypeArgs(s) ==
    IF s = <<>> THEN <<>>
    ELSE LET st == TypeArgsLoop(s, 1,
                     [args |-> <<>>, current |-> <<>>, depth |-> 0, parenDepth |-> 0])
         IN  IF Len(st.current) > 0 /\ TrimSpace(st.current) # <<>>
             THEN Append(st.args, TrimSpace(st.current))
             ELSE st.args

\* a variant that leaves in the name the text after "·lit" that is no integer
ParseAnonymousKeepRest(sym, packagePath, symbolPart) ==
    LET litIndex == Index(symbolPart, ParseLitSep)
        name     == Slice(symbolPart, 0, litIndex)
        indexStr == SliceFrom(symbolPart, litIndex + Len(ParseLitSep))
        index    == Atoi(indexStr)
        kept     == IF indexStr # <<>> /\ index.err THEN name \o indexStr ELSE name
    IN  [sym EXCEPT !.Name = kept,
                    !.IsAnonymous = TRUE,
                    !.AnonParent = packagePath \o <<".">> \o name,
                    !.AnonIndex = IF indexStr # <<>> /\ ~index.err
                                  THEN index.val ELSE 0]

\* phase 4 (b): the anonymous form
ParseAnonymous(sym, packagePath, symbolPart) ==
    LET litIndex == Index(symbolPart, ParseLitSep)
        name     == Slice(symbolPart, 0, litIndex)
        indexStr == SliceFrom(symbolPart, litIndex + Len(ParseLitSep))
        index    == Atoi(indexStr)
    IN  [sym EXCEPT !.Name = name,
                    !.IsAnonymous = TRUE,
                    !.AnonParent = packagePath \o <<".">> \o name,
                    !.AnonIndex = IF indexStr # <<>> /\ ~index.err
                                  THEN index.val ELSE 0]

\* phase 4 (c): the method form
ParseMethod(sym, symbolPart) ==
    LET recvEnd == Index(symbolPart, <<")">>)
    IN  IF recvEnd = -1 \/ ~Contains(symbolPart, <<")", ".">>) THEN Fail
        ELSE LET raw      == Slice(symbolPart, 1, recvEnd)
                 isPtr    == HasPrefix(raw, <<"*">>)
                 recvStr  == IF isPtr THEN Tail(raw) ELSE raw
                 idx      == Index(recvStr, <<"[">>)
                 end      == LastIndex(recvStr, <<"]">>)
                 typeName == IF idx > 0 THEN Slice(recvStr, 0, idx) ELSE recvStr
                 typeArgs == IF idx > 0 /\ end > idx
                             THEN parseTypeArgs(Slice(recvStr, idx + 1, end))
                             ELSE <<>>
             IN  IF recvEnd + 2 < Len(symbolPart)
                 THEN Ok([sym EXCEPT
                            !.Receiver = <<MakeReceiver(typeName, isPtr, typeArgs)>>,
                            !.Name = SliceFrom(symbolPart, recvEnd + 2)])
                 ELSE Fail

\* phase 5: type arguments left in the name
ExtractNameTypeArgs(sym) ==
    LET idx == Index(sym.Name, <<"[">>)
        end == LastIndex(sym.Name, <<"]">>)
    IN  IF idx > 0
        THEN IF end > idx
             THEN Ok([sym EXCEPT
                        !.TypeArgs = parseTypeArgs(Slice(sym.Name, idx + 1, end)),
                        !.Name = Slice(sym.Name, 0, idx)])
             ELSE Fail
        ELSE Ok(sym)

\* a variant that takes every symbol part ending in "init" for an init function
ClassifySymbolPartInitSuffix(sym, packagePath, symbolPart) ==
    IF HasSuffix(symbolPart, <<"i", "n", "i", "t">>)
    THEN Ok([sym EXCEPT !.IsInit = TRUE, !.Name = <<"i", "n", "i", "t">>])
    ELSE LET classified ==
               IF Contains(symbolPart, ParseLitSep)
               THEN Ok(ParseAnonymous(sym, packagePath, symbolPart))
               ELSE IF HasPrefix(symbolPart, <<"(">>)
               THEN ParseMethod(sym, symbolPart)
               ELSE Ok([sym EXCEPT !.Name = symbolPart])
         IN  IF classified.err THEN Fail
             ELSE ExtractNameTypeArgs(classified.sym[1])

\* a variant that tries the method form before the anonymous form
ClassifySymbolPartMethodFirst(sym, packagePath, symbolPart) ==
    IF symbolPart = <<"i", "n", "i", "t">>
    THEN Ok([sym EXCEPT !.IsInit = TRUE, !.Name = <<"i", "n", "i", "t">>])
    ELSE LET classified ==
               IF HasPrefix(symbolPart, <<"(">>)
               THEN ParseMethod(sym, symbolPart)
               ELSE IF Contains(symbolPart, ParseLitSep)
               THEN Ok(ParseAnonymous(sym, packagePath, symbolPart))
               ELSE Ok([sym EXCEPT !.Name = symbolPart])
         IN  IF classified.err THEN Fail
             ELSE ExtractNameTypeArgs(classified.sym[1])

\* phase 4: classification of the symbol part, then phase 5
ClassifySymbolPart(sym, packagePath, symbolPart) ==
    IF symbolPart = <<"i", "n", "i", "t">>
    THEN Ok([sym EXCEPT !.IsInit = TRUE, !.Name = <<"i", "n", "i", "t">>])
    ELSE LET classified ==
               IF Contains(symbolPart, ParseLitSep)
               THEN Ok(ParseAnonymous(sym, packagePath, symbolPart))
               ELSE IF HasPrefix(symbolPart, <<"(">>)
               THEN ParseMethod(sym, symbolPart)
               ELSE Ok([sym EXCEPT !.Name = symbolPart])
         IN  IF classified.err THEN Fail
             ELSE ExtractNameTypeArgs(classified.sym[1])

Parse(in) ==
    IF in = <<>> THEN Fail
    ELSE LET m == ExtractMetadata(in)
             c == ExtractContext(m.rest)
         IN  IF c.err THEN Fail
             ELSE LET sp == SplitPackage(c.rest)
                  IN  IF sp.err \/ sp.packagePath = <<>> \/ sp.symbolPart = <<>>
                      THEN Fail
                      ELSE ClassifySymbolPart(
                             [ZeroSymbol EXCEPT !.PackagePath = sp.packagePath,
                                                !.Context = c.context,
                                                !.Metadata = m.meta],
                             sp.packagePath, sp.symbolPart)

(***************************************************************************)
(* symbol.go                                                               *)
(***************************************************************************)
\* the bytes Format writes between the name and the index of an anonymous
\* function: the source file holds U+00C2 U+00B7 followed by "lit"
FormatLitSep == <<"C3", "82", "C2", "B7", "l", "i", "t">>

CommaSpace == <<",", " ">>

hasMetadata(m) ==
    m.Via # <<>> \/ m.Alias # <<>> \/ m.Position # <<>> \/ Cardinality(m.Custom) > 0

FormatReceiver(s) ==
    IF s.Receiver = <<>> THEN <<>>
    ELSE LET r == s.Receiver[1]
         IN  <<"(">> \o (IF r.IsPointer THEN <<"*">> ELSE <<>>) \o r.TypeName
             \o (IF Len(r.TypeArgs) > 0
                 THEN <<"[">> \o Join(r.TypeArgs, CommaSpace) \o <<"]">>
                 ELSE <<>>)
             \o <<")", ".">>

FormatName(s) ==
    IF s.IsAnonymous
    THEN s.Name \o FormatLitSep
         \o (IF s.AnonIndex > 0 THEN Itoa(s.AnonIndex) ELSE <<>>)
    ELSE s.Name

\* a variant that writes every non-empty constraint, "any" included
FormatTypeParamVerbatim(tp) ==
    tp.Name \o (IF tp.Constraint # <<>> THEN <<" ">> \o tp.Constraint ELSE <<>>)

FormatTypeParam(tp) ==
    tp.Name \o (IF tp.Constraint # <<>> /\ tp.Constraint # <<"a", "n", "y">>
                THEN <<" ">> \o tp.Constraint ELSE <<>>)

\* a variant that looks at the type parameters first
FormatGenericsParamsFirst(s) ==
    IF Len(s.TypeParams) > 0
    THEN <<"[">>
         \o Join([i \in 1..Len(s.TypeParams) |-> FormatTypeParam(s.TypeParams[i])],
                 CommaSpace)
         \o <<"]">>
    ELSE IF Len(s.TypeArgs) > 0
    THEN <<"[">> \o Join(s.TypeArgs, CommaSpace) \o <<"]">>
    ELSE <<>>

FormatGenerics(s) ==
    IF Len(s.TypeArgs) > 0
    THEN <<"[">> \o Join(s.TypeArgs, CommaSpace) \o <<"]">>
    ELSE IF Len(s.TypeParams) > 0
    THEN <<"[">>
         \o Join([i \in 1..Len(s.TypeParams) |-> FormatTypeParam(s.TypeParams[i])],
                 CommaSpace)
         \o <<"]">>
    ELSE <<>>

FormatContext(s) ==
    IF s.Context # <<>> THEN <<"@">> \o s.Context ELSE <<>>

\* a variant that writes the position before via and alias
MetaPartsPosFirst(m, order) ==
    (IF m.Position # <<>> THEN <<<<"p", "o", "s", ":">> \o m.Position>> ELSE <<>>)
    \o (IF m.Via # <<>> THEN <<<<"v", "i", "a", ":">> \o m.Via>> ELSE <<>>)
    \o (IF m.Alias # <<>> THEN <<<<"a", "l", "i", "a", "s", ":">> \o m.Alias>> ELSE <<>>)
    \o [i \in 1..Len(order) |-> order[i][1] \o <<":">> \o order[i][2]]

\* the items of the metadata block; order is the order in which the range
\* over the custom map yields its entries
MetaParts(m, order) ==
    (IF m.Via # <<>> THEN <<<<"v", "i", "a", ":">> \o m.Via>> ELSE <<>>)
    \o (IF m.Alias # <<>> THEN <<<<"a", "l", "i", "a", "s", ":">> \o m.Alias>> ELSE <<>>)
    \o (IF m.Position # <<>> THEN <<<<"p", "o", "s", ":">> \o m.Position>> ELSE <<>>)
    \o [i \in 1..Len(order) |-> order[i][1] \o <<":">> \o order[i][2]]

\* a variant that writes the block whether or not there is metadata
FormatMetadataAlways(m, order) ==
    <<"{">> \o Join(MetaParts(m, order), <<",">>) \o <<"}">>

FormatMetadata(m, order) ==
    IF hasMetadata(m) /\ Len(MetaParts(m, order)) > 0
    THEN <<"{">> \o Join(MetaParts(m, order), <<",">>) \o <<"}">>
    ELSE <<>>

Format(s, order) ==
    s.PackagePath \o <<".">> \o FormatReceiver(s) \o FormatName(s)
    \o FormatGenerics(s) \o FormatContext(s) \o FormatMetadata(s.Metadata, order)

\* the orders in which a range over map m may yield its entries
MapOrders(m) ==
    {q \in [1..Cardinality(m) -> m] : \A i, j \in 1..Cardinality(m) : q[i] = q[j] => i = j}

(***************************************************************************)
(* adapters: the SSA notation.  A regular expression is modelled by the    *)
(* match Go's regexp package returns for it: the leftmost match, in which  *)
(* a greedy (.+) takes the longest prefix that lets the rest match.        *)
(***************************************************************************)
MaxOf(S) == CHOOSE i \in S : \A j \in S : i >= j

NoMatch == [ok |-> FALSE, m |-> <<>>]

Match(groups) == [ok |-> TRUE, m |-> groups]

\* whether t matches ([^:]+):(\d+):(\d+)$
IsLocation(t) ==
    LET parts == Split(t, ":")
    IN  Len(parts) = 3 /\ parts[1] # <<>> /\ AllDigits(parts[2]) /\ AllDigits(parts[3])

\* ^(.+)@([^:]+):(\d+):(\d+)$ ; m = <<group 1, "group 2:group 3:group 4">>
ssaLocationPattern(s) ==
    LET at == {i \in Occurrences(s, <<"@">>) : i >= 1 /\ IsLocation(SliceFrom(s, i + 1))}
    IN  IF at = {} THEN NoMatch
        ELSE Match(<<Slice(s, 0, MaxOf(at)), SliceFrom(s, MaxOf(at) + 1)>>)

SSAInitMark == <<".", "i", "n", "i", "t", "#">>

\* ^(.+)\.init#(\d+)$ ; m = <<group 1, group 2>>
ssaInitPattern(s) ==
    LET h == LastIndex(s, <<"#">>)
    IN  IF h >= 6 /\ MatchAt(s, SSAInitMark, h - 5) /\ AllDigits(SliceFrom(s, h + 1))
        THEN Match(<<Slice(s, 0, h - 5), SliceFrom(s, h + 1)>>)
        ELSE NoMatch

\* ^(.+)\.\((\*?)([^)]+)\)\.([^.]+)$ ; m = <<group 1, group 2, group 3, group 4>>
ssaMethodPattern(s) ==
    LET j     == LastIndex(s, <<".">>)
        opens == {i \in Occurrences(s, <<".", "(">>) :
                    /\ i >= 1
                    /\ i + 2 < j - 1
                    /\ ~Contains(Slice(s, i + 2, j - 1), <<")">>)}
    IN  IF j >= 1 /\ j < Len(s) - 1 /\ s[j] = ")" /\ opens # {}
        THEN LET i       == MaxOf(opens)
                 content == Slice(s, i + 2, j - 1)
                 star    == content[1] = "*" /\ Len(content) >= 2
             IN  Match(<<Slice(s, 0, i),
                         IF star THEN <<"*">> ELSE <<>>,
                         IF star THEN Tail(content) ELSE content,
                         SliceFrom(s, j + 1)>>)
        ELSE NoMatch

\* ^(.+)\.([^.]+)\$\d+$ ; m = <<group 0>>, the only group the code reads
ssaAnonPattern(s) ==
    LET k == LastIndex(s, <<"$">>)
        d == LastIndex(Slice(s, 0, k), <<".">>)
    IN  IF k >= 0 /\ AllDigits(SliceFrom(s, k + 1)) /\ d >= 1 /\ d < k - 1
        THEN Match(<<s>>)
        ELSE NoMatch

\* ^(.+)\.([^.]+)$ ; m = <<group 1, group 2>>
ssaFuncPattern(s) ==
    LET d == LastIndex(s, <<".">>)
    IN  IF d >= 1 /\ d < Len(s) - 1
        THEN Match(<<Slice(s, 0, d), SliceFrom(s, d + 1)>>)
        ELSE NoMatch

\* a variant that records the location as the Symbol's context
WithLocationAsContext(sym, location) ==
    IF location # <<>>
    THEN [sym EXCEPT !.Context = location]
    ELSE sym

\* sym.Metadata = Metadata{Position: location} when a location was found
WithLocation(sym, location) ==
    IF location # <<>>
    THEN [sym EXCEPT !.Metadata = [EmptyMetadata EXCEPT !.Position = location]]
    ELSE sym

\* the anonymous branch of FromSSA; <<>> when it falls through
SSAAnonymous(ssa) ==
    LET parts == Split(ssa, "$")
    IN  IF ssaAnonPattern(ssa).ok /\ Len(parts) = 2
           /\ LastIndex(parts[1], <<".">>) >= 0
        THEN LET baseParts == LastIndex(parts[1], <<".">>)
             IN  <<[ZeroSymbol EXCEPT
                      !.PackagePath = Slice(parts[1], 0, baseParts),
                      !.Name = SliceFrom(parts[1], baseParts + 1),
                      !.IsAnonymous = TRUE,
                      !.AnonParent = parts[1],
                      !.AnonIndex = Atoi(parts[2]).val]>>
        ELSE <<>>

FromSSA(x) ==
    LET loc      == ssaLocationPattern(x)
        ssa      == IF loc.ok THEN loc.m[1] ELSE x
        location == IF loc.ok THEN loc.m[2] ELSE <<>>
        init     == ssaInitPattern(ssa)
        method   == ssaMethodPattern(ssa)
        anon     == SSAAnonymous(ssa)
        func     == ssaFuncPattern(ssa)
    IN  IF init.ok
        THEN Ok(WithLocation([ZeroSymbol EXCEPT !.PackagePath = init.m[1],
                                                !.Name = <<"i", "n", "i", "t">>,
                                                !.IsInit = TRUE], location))
        ELSE IF method.ok
        THEN Ok(WithLocation([ZeroSymbol EXCEPT
                                !.PackagePath = method.m[1],
                                !.Name = method.m[4],
                                !.Receiver = <<MakeReceiver(method.m[3],
                                                            method.m[2] = <<"*">>,
                                                            <<>>)>>], location))
        ELSE IF anon # <<>>
        THEN Ok(WithLocation(anon[1], location))
        ELSE IF func.ok
        THEN Ok(WithLocation([ZeroSymbol EXCEPT !.PackagePath = func.m[1],
                                                !.Name = func.m[2]], location))
        ELSE Fail

\* the numeral ToSSA and ToStackTrace write for an anonymous function
\* a variant that writes "1" whatever the index
AnonNumeralOne(sym) == <<"1">>

AnonNumeral(sym) == IF sym.AnonIndex > 0 THEN Itoa(sym.AnonIndex) ELSE <<"1">>

\* a variant that writes every receiver as a value receiver
ToSSAValueReceiver(sym) ==
    sym.PackagePath \o <<".">>
    \o (IF sym.IsInit THEN <<"i", "n", "i", "t", "#", "1">>
        ELSE IF sym.Receiver # <<>>
        THEN <<"(">> \o sym.Receiver[1].TypeName \o <<")", ".">> \o sym.Name
        ELSE IF sym.IsAnonymous
        THEN sym.Name \o <<"$">> \o AnonNumeral(sym)
        ELSE sym.Name)
    \o (IF sym.Metadata.Position # <<>>
        THEN <<"@">> \o sym.Metadata.Position ELSE <<>>)

ToSSA(sym) ==
    sym.PackagePath \o <<".">>
    \o (IF sym.IsInit THEN <<"i", "n", "i", "t", "#", "1">>
        ELSE IF sym.Receiver # <<>>
        THEN <<"(">> \o (IF sym.Receiver[1].IsPointer THEN <<"*">> ELSE <<>>)
             \o sym.Receiver[1].TypeName \o <<")", ".">> \o sym.Name
        ELSE IF sym.IsAnonymous
        THEN sym.Name \o <<"$">> \o AnonNumeral(sym)
        ELSE sym.Name)
    \o (IF sym.Metadata.Position # <<>>
        THEN <<"@">> \o sym.Metadata.Position ELSE <<>>)

(***************************************************************************)
(* adapters: the stack-trace notation                                      *)
(***************************************************************************)
\* the file:line information FromStackTrace removes first
StripFileInfo(trace) ==
    LET idx  == Index(trace, <<" ", "/">>)
        last == LastIndex(trace, <<" ">>)
    IN  IF idx > 0 THEN Slice(trace, 0, idx)
        ELSE IF last > 0
                /\ (\/ Contains(SliceFrom(trace, last + 1), <<".", "g", "o", ":">>)
                    \/ Contains(SliceFrom(trace, last + 1), <<"/">>))
        THEN Slice(trace, 0, last)
        ELSE trace

DotFunc == <<".", "f", "u", "n", "c">>

\* the index of the ".func" that \.func\d+$ matches, or -1
FuncSuffixAt(s) ==
    LET f == LastIndex(s, DotFunc)
    IN  IF f >= 0 /\ AllDigits(SliceFrom(s, f + 5)) THEN f ELSE -1

\* ^(.+)\.init\.func\d+$
stackInitPattern(s) ==
    LET f == FuncSuffixAt(s)
    IN  f >= 6 /\ MatchAt(s, <<".", "i", "n", "i", "t">>, f - 5)

\* ^(.+)\.func\d+ ; m = <<group 1>>
stackAnonPattern(s) ==
    LET at == {i \in Occurrences(s, DotFunc) :
                 i >= 1 /\ i + 5 < Len(s) /\ IsDigit(s[i + 6])}
    IN  IF at = {} THEN NoMatch ELSE Match(<<Slice(s, 0, MaxOf(at))>>)

\* one step of the loop of parseTypeParams on byte ch
TypeParamsStep(st, ch) ==
    CASE ch = "[" -> [st EXCEPT !.depth = @ + 1, !.current = Append(@, ch)]
      [] ch = "]" -> [st EXCEPT !.depth = @ - 1, !.current = Append(@, ch)]
      [] ch = "," ->
           IF st.depth = 0
           THEN [st EXCEPT !.result = Append(@, TrimSpace(st.current)),
                           !.current = <<>>]
           ELSE [st EXCEPT !.current = Append(@, ch)]
      [] ch = " " ->
           IF st.depth > 0 \/ Len(st.current) > 0
           THEN [st EXCEPT !.current = Append(@, ch)]
           ELSE st
      [] OTHER -> [st EXCEPT !.current = Append(@, ch)]

RECURSIVE TypeParamsLoop(_, _, _)
TypeParamsLoop(s, i, st) ==
    IF i > Len(s) THEN st ELSE TypeParamsLoop(s, i + 1, TypeParamsStep(st, s[i]))

parseTypeParams(s) ==
    LET st == TypeParamsLoop(s, 1, [result |-> <<>>, current |-> <<>>, depth |-> 0])
    IN  IF Len(st.current) > 0 THEN Append(st.result, TrimSpace(st.current))
        ELSE st.result

\* the loop that looks for the parenthesis closing the receiver: the index
\* in remainder of that parenthesis, or -1
RECURSIVE CloseParenLoop(_, _, _, _)
CloseParenLoop(remainder, i, parenDepth, inBrackets) ==
    IF i >= Len(remainder) THEN -1
    ELSE LET ch == remainder[i + 1]
         IN  IF ch = "[" THEN CloseParenLoop(remainder, i + 1, parenDepth, TRUE)
             ELSE IF ch = "]" THEN CloseParenLoop(remainder, i + 1, parenDepth, FALSE)
             ELSE IF ch = "(" /\ ~inBrackets
             THEN CloseParenLoop(remainder, i + 1, parenDepth + 1, inBrackets)
             ELSE IF ch = ")" /\ ~inBrackets
             THEN IF parenDepth - 1 = 0 THEN i
                  ELSE CloseParenLoop(remainder, i + 1, parenDepth - 1, inBrackets)
             ELSE CloseParenLoop(remainder, i + 1, parenDepth, inBrackets)

\* the bracketed type arguments of text: <<name, args>>
SplitTypeArgs(text) ==
    LET idx == Index(text, <<"[">>)
        end == LastIndex(text, <<"]">>)
    IN  <<IF idx > 0 THEN Slice(text, 0, idx) ELSE text,
          IF idx > 0 /\ end > idx THEN parseTypeParams(Slice(text, idx + 1, end))
          ELSE <<>>>>

\* a variant that keeps only the first dotted part of the package path
TraceInitFirstPart(trace) ==
    LET parts == Split(trace, ".")
    IN  IF stackInitPattern(trace) /\ Len(parts) >= 2
        THEN <<[ZeroSymbol EXCEPT
                  !.PackagePath = parts[1],
                  !.Name = <<"i", "n", "i", "t">>,
                  !.IsInit = TRUE]>>
        ELSE <<>>

\* the init branch of FromStackTrace; <<>> when it falls through
TraceInit(trace) ==
    LET parts == Split(trace, ".")
    IN  IF stackInitPattern(trace) /\ Len(parts) >= 2
        THEN <<[ZeroSymbol EXCEPT
                  !.PackagePath = Join(SubSeq(parts, 1, Len(parts) - 2), <<".">>),
                  !.Name = <<"i", "n", "i", "t">>,
                  !.IsInit = TRUE]>>
        ELSE <<>>

\* a variant that keeps the numeral of a trailing ".func<digits>" as the index
TraceAnonymousKeepIndex(trace) ==
    LET anon == stackAnonPattern(trace)
        base == anon.m[1]
        idx  == LastIndex(base, <<".">>)
        rest == SliceFrom(trace, Len(base) + Len(DotFunc))
    IN  IF anon.ok /\ idx > 0
        THEN <<[ZeroSymbol EXCEPT !.PackagePath = Slice(base, 0, idx),
                                  !.Name = SliceFrom(base, idx + 1),
                                  !.IsAnonymous = TRUE,
                                  !.AnonParent = base,
                                  !.AnonIndex = IF AllDigits(rest)
                                                THEN DecimalValue(rest) ELSE 0]>>
        ELSE <<>>

\* the anonymous branch of FromStackTrace; <<>> when it falls through
TraceAnonymous(trace) ==
    LET anon == stackAnonPattern(trace)
        base == anon.m[1]
        idx  == LastIndex(base, <<".">>)
    IN  IF anon.ok /\ idx > 0
        THEN <<[ZeroSymbol EXCEPT !.PackagePath = Slice(base, 0, idx),
                                  !.Name = SliceFrom(base, idx + 1),
                                  !.IsAnonymous = TRUE,
                                  !.AnonParent = base]>>
        ELSE <<>>

\* the method branch of FromStackTrace; <<>> when it falls through
TraceMethod(trace) ==
    LET startParen == Index(trace, <<".", "(", "*">>)
        remainder  == SliceFrom(trace, startParen + 3)
        closeParen == CloseParenLoop(remainder, 0, 1, FALSE)
        recv       == SplitTypeArgs(Slice(remainder, 0, closeParen))
        after      == SliceFrom(remainder, closeParen + 1)
    IN  IF startParen > 0 /\ closeParen > 0 /\ HasPrefix(after, <<".">>)
        THEN <<[ZeroSymbol EXCEPT
                  !.PackagePath = Slice(trace, 0, startParen),
                  !.Name = Tail(after),
                  !.Receiver = <<MakeReceiver(recv[1], TRUE, recv[2])>>]>>
        ELSE <<>>

\* the generic-function branch of FromStackTrace; <<>> when it falls through
TraceGeneric(trace) ==
    LET bracketStart == Index(trace, <<"[">>)
        bracketEnd   == LastIndex(trace, <<"]">>)
        lastDot      == LastIndex(Slice(trace, 0, bracketStart), <<".">>)
    IN  IF bracketStart > 0 /\ bracketEnd > bracketStart /\ lastDot > 0
        THEN <<[ZeroSymbol EXCEPT
                  !.PackagePath = Slice(trace, 0, lastDot),
                  !.Name = Slice(trace, lastDot + 1, bracketStart),
                  !.TypeArgs = parseTypeParams(
                                 Slice(trace, bracketStart + 1, bracketEnd))]>>
        ELSE <<>>

\* the plain-function branch of FromStackTrace; <<>> when it falls through
TraceFunction(trace) ==
    LET lastDot  == LastIndex(trace, <<".">>)
        funcName == SliceFrom(trace, lastDot + 1)
    IN  IF lastDot > 0 /\ funcName # <<>>
           /\ ~ContainsAny(funcName, {"[", "]", "(", ")", "*", " "})
        THEN <<[ZeroSymbol EXCEPT !.PackagePath = Slice(trace, 0, lastDot),
                                  !.Name = funcName]>>
        ELSE <<>>

FromStackTrace(x) ==
    LET trace == StripFileInfo(x)
    IN  IF TraceInit(trace) # <<>> THEN Ok(TraceInit(trace)[1])
        ELSE IF TraceAnonymous(trace) # <<>> THEN Ok(TraceAnonymous(trace)[1])
        ELSE IF TraceMethod(trace) # <<>> THEN Ok(TraceMethod(trace)[1])
        ELSE IF TraceGeneric(trace) # <<>> THEN Ok(TraceGeneric(trace)[1])
        ELSE IF TraceFunction(trace) # <<>> THEN Ok(TraceFunction(trace)[1])
        ELSE Fail

\* a variant that names an anonymous function by package path and name
ToStackTraceFromName(sym) ==
    IF sym.IsAnonymous
    THEN sym.PackagePath \o <<".">> \o sym.Name \o DotFunc \o AnonNumeral(sym)
    ELSE sym.PackagePath \o <<".">>
         \o (IF sym.IsInit THEN <<"i", "n", "i", "t", ".", "f", "u", "n", "c", "1">>
             ELSE IF sym.Receiver # <<>>
             THEN <<"(", "*">> \o sym.Receiver[1].TypeName
                  \o (IF Len(sym.Receiver[1].TypeArgs) > 0
                      THEN <<"[">> \o Join(sym.Receiver[1].TypeArgs, CommaSpace)
                           \o <<"]">>
                      ELSE <<>>)
                  \o <<")", ".">> \o sym.Name
             ELSE sym.Name
                  \o (IF Len(sym.TypeArgs) > 0
                      THEN <<"[">> \o Join(sym.TypeArgs, CommaSpace) \o <<"]">>
                      ELSE <<>>))

ToStackTrace(sym) ==
    IF sym.IsAnonymous
    THEN IF sym.AnonParent # <<>>
         THEN sym.AnonParent \o DotFunc \o AnonNumeral(sym)
         ELSE <<>>
    ELSE sym.PackagePath \o <<".">>
         \o (IF sym.IsInit THEN <<"i", "n", "i", "t", ".", "f", "u", "n", "c", "1">>
             ELSE IF sym.Receiver # <<>>
             THEN <<"(", "*">> \o sym.Receiver[1].TypeName
                  \o (IF Len(sym.Receiver[1].TypeArgs) > 0
                      THEN <<"[">> \o Join(sym.Receiver[1].TypeArgs, CommaSpace)
                           \o <<"]">>
                      ELSE <<>>)
                  \o <<")", ".">> \o sym.Name
             ELSE sym.Name
                  \o (IF Len(sym.TypeArgs) > 0
                      THEN <<"[">> \o Join(sym.TypeArgs, CommaSpace) \o <<"]">>
                      ELSE <<>>))

(***************************************************************************)
(* The strings a caller hands to Parse.  GrammarInputs are built from the  *)
(* pieces of the notation (package, receiver, name, anonymous suffix,      *)
(* type arguments, context, metadata), well-formed and not; ShortInputs    *)
(* are all strings of at most MaxLen atoms.                                *)
(***************************************************************************)
PkgPieces ==
    {<<"p", ".">>, <<"a", "/", "b", ".", "c", ".">>}

RecvPieces ==
    {<<>>, <<"(", "T", ")", ".">>, <<"(", "*", "T", ")", ".">>,
     <<"(", "*", "L", "[", "K", ",", " ", "V", "]", ")", ".">>}

NamePieces ==
    {<<"F">>, <<"i", "n", "i", "t">>}

GenPieces ==
    {<<>>, <<"[", "T", "]">>,
     <<"[", "M", "[", "K", ",", " ", "V", "]", ",", " ", "L", "[", "T", "]", "]">>}

AnonPieces ==
    {<<>>, <<"C2", "B7", "l", "i", "t">>,
     <<"C2", "B7", "l", "i", "t", "-", "2">>,
     <<"C2", "B7", "l", "i", "t", "X">>,
     <<"C2", "B7", "l", "i", "t", "[", "T", "]">>}
    \cup {ParseLitSep \o Itoa(i) : i \in 0..MaxIndex}

CtxPieces ==
    {<<>>, <<"@", "x">>, <<"@">>, <<"@", ".", "y">>}

MetaPieces ==
    {<<>>, <<"{", "}">>, <<"{", "v", "i", "a", ":", "W", "}">>,
     <<"{", "k", ":", "v", ",", "j", ":", "w", "}">>,
     <<"{", "v", "i", "a", ":", "B", "[", "T", ",", " ", "U", "]", ",", "p", "o", "s", ":", "f", ":", "1", ":", "1", "}">>,
     <<"{", "v", "i", "a", ":", "C", "{", "v", "i", "a", ":", "L", "}", "}">>}

GrammarInputs ==
    {p \o r \o n \o g \o a \o c \o m :
        p \in PkgPieces, r \in RecvPieces, n \in NamePieces, g \in GenPieces,
        a \in AnonPieces, c \in CtxPieces, m \in MetaPieces}

\* the inputs of the repository's tests (parse_test.go) and documentation
DocumentedInputs ==
    <<<<"f", "m", "t", ".", "P", "r", "i", "n", "t", "l", "n">>,
      <<"n", "e", "t", "/", "h", "t", "t", "p", ".", "(", "*", "S", "e", "r", "v", "e", "r", ")", ".", "S", "e", "r", "v", "e">>,
      <<"d", "a", "t", "a", "b", "a", "s", "e", "/", "s", "q", "l", ".", "i", "n", "i", "t">>,
      <<"m", "a", "i", "n", ".", "m", "a", "i", "n", "C2", "B7", "l", "i", "t">>,
      <<"m", "a", "i", "n", ".", "(", "*", "S", "e", "r", "v", "e", "r", ")", ".", "S", "t", "a", "r", "t", "C2", "B7", "l", "i", "t", "2">>,
      <<"g", "i", "t", "h", "u", "b", ".", "c", "o", "m", "/", "u", "s", "e", "r", "/", "r", "e", "p", "o", ".", "M", "a", "p", "[", "s", "t", "r", "i", "n", "g", ",", " ", "i", "n", "t", "]">>,
      <<"g", "i", "t", "h", "u", "b", ".", "c", "o", "m", "/", "u", "s", "e", "r", "/", "r", "e", "p", "o", ".", "(", "*", "L", "i", "s", "t", "[", "T", "]", ")", ".", "A", "d", "d">>,
      <<"n", "e", "t", ".", "(", "*", "n", "e", "t", "F", "D", ")", ".", "c", "o", "n", "n", "e", "c", "t", "@", "l", "i", "n", "u", "x">>,
      <<"i", "o", ".", "(", "*", "B", "u", "f", "f", "e", "r", ")", ".", "W", "r", "i", "t", "e", "{", "v", "i", "a", ":", "W", "r", "i", "t", "e", "r", "}">>,
      <<"p", "k", "g", ".", "(", "*", "C", "o", "n", "t", "r", "o", "l", "l", "e", "r", "[", "T", "]", ")", ".", "H", "a", "n", "d", "l", "e", "@", "l", "i", "n", "u", "x", "{", "v", "i", "a", ":", "B", "a", "s", "e", "[", "T", "]", ",", "p", "o", "s", ":", "f", "i", "l", "e", ".", "g", "o", ":", "1", "0", ":", "1", "}">>,
      <<"i", "n", "v", "a", "l", "i", "d", "f", "o", "r", "m", "a", "t">>,
      <<>>,
      <<"p", "k", "g", ".", "(", "*", "T", "y", "p", "e">>,
      <<"p", "k", "g", ".", "F", "u", "n", "c", "t", "i", "o", "n", "@">>,
      <<"p", "k", "g", ".", "F", "u", "n", "c", "t", "i", "o", "n", "[", "T">>,
      <<"p", "k", "g", ".", "T", "r", "a", "n", "s", "f", "o", "r", "m", "[", "M", "a", "p", "[", "K", ",", " ", "V", "]", ",", " ", "L", "i", "s", "t", "[", "T", "]", "]">>,
      <<"m", "y", "a", "p", "p", ".", "(", "*", "A", "p", "p", ")", ".", "S", "t", "a", "r", "t", "{", "v", "i", "a", ":", "C", "o", "m", "p", "o", "n", "e", "n", "t", "{", "v", "i", "a", ":", "L", "i", "f", "e", "c", "y", "c", "l", "e", "}", "}">>>>

\* further inputs, most of them malformed
EdgeInputs ==
    <<<<"p", "k", "g", ".", "F", "C2", "B7", "l", "i", "t", "-", "2">>,
      <<"p", "k", "g", ".", "C2", "B7", "l", "i", "t">>,
      <<"p", "k", "g", ".", "F", "[", "T", "]", "C2", "B7", "l", "i", "t">>,
      <<"p", "k", "g", ".", "(", "*", "T", ")", ".", "i", "n", "i", "t">>,
      <<"p", "k", "g", ".", "M", "a", "p", "[", "g", "i", "t", "h", "u", "b", ".", "c", "o", "m", "/", "x", ".", "T", ",", " ", "i", "n", "t", "]">>,
      <<"p", "k", "g", ".", "(", "*", "S", "[", "T", ",", " ", "U", "]", ")", ".", "H", "a", "n", "d", "l", "e", "{", "v", "i", "a", ":", "B", "a", "s", "e", "[", "T", ",", " ", "U", "]", ",", "p", "o", "s", ":", "f", ".", "g", "o", ":", "1", ":", "1", "}">>,
      <<"p", ".", "[", "F">>,
      <<"p", ".", "F", "@", ".", "y">>,
      <<"p", ".", "F", "]", "@">>,
      <<"p", ".", "F", "@", ".", "(">>,
      <<"p", ".", "F", "@", "[", "x">>,
      <<"p", ".", "F", "@", "(", "x">>,
      <<"p", ".", "F", "@", "{", "x">>,
      <<"p", ".", "F", "@", "@", "x">>,
      <<"p", ".", "F", "@", "@">>,
      <<"p", ".", "(", "T", ")", ".">>,
      <<"p", ".", "(", "T", ")">>,
      <<"p", ".", "(", "T", ")", ".", "M", "[">>,
      <<".", "F">>,
      <<"F", ".">>,
      <<"p", ".", "F", "{">>,
      <<"p", "{", ".", "F">>,
      <<"p", "(", ".", "F">>,
      <<"p", "]", ".", "F">>,
      <<"p", ".", "F", "[", "]">>,
      <<"p", ".", "F", "[", "T", ",", "U", "]">>,
      <<"p", ".", "F", "{", " ", "v", "i", "a", ":", "W", "}">>,
      <<"p", ".", "F", "{", "k", ":", " ", "v", " ", ",", "v", "i", "a", ":", "W", ",", "k", ":", "w", "}">>,
      <<"p", ".", "F", "{", ":", "}">>,
      <<"p", ".", "F", "[", "K", "{", "a", ":", "b", "}">>,
      <<"p", ".", "F", "@", "x", "[", "y", "]">>,
      <<"p", ".", "F", "[", "a", "@", "b", "]">>,
      <<"[", "p", ".", "F">>,
      <<"p", "k", "g", ".", "F", "C2", "B7", "l", "i", "t", "[", "T", "]">>,
      <<"p", "k", "g", ".", "F", "C2", "B7", "l", "i", "t", "X">>,
      <<"p", "k", "g", ".", "F", "C2", "B7", "l", "i", "t">>>>

Atoms ==
    {<<"p">>, <<".">>, <<"(">>, <<")">>, <<"[">>, <<"]">>, <<"{">>, <<"}">>,
     <<"@">>, <<":">>}
    \cup {ParseLitSep}

\* all concatenations of at most n of the atoms
RECURSIVE StringsOver(_, _)
StringsOver(atoms, n) ==
    IF n = 0 THEN {<<>>}
    ELSE LET shorter == StringsOver(atoms, n - 1)
         IN  shorter \cup {s \o a : s \in shorter, a \in atoms}

ShortInputs == StringsOver(Atoms, MaxLen)

(***************************************************************************)
(* The Symbols a caller constructs directly (as the formatter's tests do). *)
(***************************************************************************)
BuiltTypeParams ==
    {<<>>,
     <<[Name |-> <<"T">>, Constraint |-> <<>>]>>,
     <<[Name |-> <<"T">>, Constraint |-> <<"c", "m", "p">>],
       [Name |-> <<"U">>, Constraint |-> <<"a", "n", "y">>]>>}

BuiltTypeArgs == {<<>>, <<<<"i", "n", "t">>>>, <<<<"K">>, <<"V">>>>}

BuiltReceivers ==
    {<<>>, <<MakeReceiver(<<"T">>, FALSE, <<>>)>>,
     <<MakeReceiver(<<"L">>, TRUE, <<<<"K">>, <<"V">>>>)>>}

BuiltCustomEntries == {<<<<"k">>, <<"v">>>>, <<<<"j">>, <<"w">>>>, <<<<"a">>, <<"b">>>>}

BuiltMetadata ==
    {[Via |-> v, Alias |-> <<>>, Position |-> p, Custom |-> c] :
        v \in {<<>>, <<"W">>}, p \in {<<>>, <<"f", ":", "1", ":", "1">>},
        c \in SUBSET BuiltCustomEntries}

BuiltSymbols ==
    {[ZeroSymbol EXCEPT !.PackagePath = <<"p">>, !.Name = <<"F">>,
                        !.Receiver = r, !.TypeParams = tp, !.TypeArgs = ta,
                        !.Metadata = m] :
        r \in BuiltReceivers, tp \in BuiltTypeParams, ta \in BuiltTypeArgs,
        m \in BuiltMetadata}
    \cup
    {[ZeroSymbol EXCEPT !.PackagePath = <<"p">>, !.Name = <<"F">>,
                        !.IsAnonymous = TRUE, !.AnonParent = <<"p", ".", "F">>,
                        !.AnonIndex = i, !.Context = c] :
        i \in 0..MaxIndex, c \in {<<>>, <<"x">>}}
    \cup
    {[ZeroSymbol EXCEPT !.PackagePath = <<"p">>, !.Name = <<"F">>,
                        !.Context = c,
                        !.Metadata = [Via |-> v, Alias |-> <<"A">>,
                                      Position |-> ps, Custom |-> cu]] :
        c \in {<<>>, <<"x">>}, v \in {<<>>, <<"W">>},
        ps \in {<<>>, <<"f", ":", "1", ":", "1">>},
        cu \in {{}, {<<<<"k">>, <<"v">>>>}}}

\* the Symbols of TestSymbol_Format
TestedSymbols ==
    <<
      [ZeroSymbol EXCEPT
         !.PackagePath = <<"m", "a", "i", "n">>,
         !.Name = <<"m", "a", "i", "n">>,
         !.IsAnonymous = TRUE],
      [ZeroSymbol EXCEPT
         !.PackagePath = <<"m", "a", "i", "n">>,
         !.Name = <<"h", "a", "n", "d", "l", "e", "r">>,
         !.IsAnonymous = TRUE,
         !.AnonIndex = 3],
      [ZeroSymbol EXCEPT
         !.PackagePath = <<"s", "l", "i", "c", "e", "s">>,
         !.Name = <<"S", "o", "r", "t">>,
         !.TypeArgs = <<<<"i", "n", "t">>>>],
      [ZeroSymbol EXCEPT
         !.PackagePath = <<"p", "k", "g">>,
         !.Name = <<"P", "r", "o", "c", "e", "s", "s">>,
         !.TypeParams = <<[Name |-> <<"T">>, Constraint |-> <<"c", "o", "m", "p", "a", "r", "a", "b", "l", "e">>],
                          [Name |-> <<"U">>, Constraint |-> <<"a", "n", "y">>]>>],
      [ZeroSymbol EXCEPT
         !.PackagePath = <<"c", "o", "n", "t", "a", "i", "n", "e", "r">>,
         !.Name = <<"P", "u", "s", "h">>,
         !.Receiver = <<MakeReceiver(<<"S", "t", "a", "c", "k">>, TRUE, <<<<"*", "N", "o", "d", "e">>>>)>>],
      [ZeroSymbol EXCEPT
         !.PackagePath = <<"s", "y", "s", "c", "a", "l", "l">>,
         !.Name = <<"O", "p", "e", "n">>,
         !.Context = <<"d", "a", "r", "w", "i", "n">>],
      [ZeroSymbol EXCEPT
         !.PackagePath = <<"i", "o">>,
         !.Name = <<"W", "r", "i", "t", "e">>,
         !.Receiver = <<MakeReceiver(<<"M", "u", "l", "t", "i", "W", "r", "i", "t", "e", "r">>, TRUE, <<>>)>>,
         !.Metadata = [Via |-> <<"W", "r", "i", "t", "e", "r">>, Alias |-> <<>>,
                       Position |-> <<"m", "u", "l", "t", "i", ".", "g", "o", ":", "2", "5", ":", "1">>,
                       Custom |-> {}]],
      [ZeroSymbol EXCEPT
         !.PackagePath = <<"p", "k", "g">>,
         !.Name = <<"H", "a", "n", "d", "l", "e">>,
         !.Receiver = <<MakeReceiver(<<"S", "e", "r", "v", "e", "r">>, TRUE, <<<<"T">>, <<"U">>>>)>>,
         !.TypeArgs = <<<<"s", "t", "r", "i", "n", "g">>, <<"i", "n", "t">>>>,
         !.Context = <<"l", "i", "n", "u", "x">>,
         !.Metadata = [Via |-> <<"B", "a", "s", "e", "S", "e", "r", "v", "e", "r", "[", "T", ",", " ", "U", "]">>, Alias |-> <<>>,
                       Position |-> <<"s", "e", "r", "v", "e", "r", ".", "g", "o", ":", "1", "0", "0", ":", "5">>,
                       Custom |-> {<<<<"d", "e", "p", "r", "e", "c", "a", "t", "e", "d">>, <<"t", "r", "u", "e">>>>}]],
      [ZeroSymbol EXCEPT
         !.PackagePath = <<"d", "a", "t", "a", "b", "a", "s", "e", "/", "s", "q", "l">>,
         !.Name = <<"i", "n", "i", "t">>,
         !.IsInit = TRUE],
      [ZeroSymbol EXCEPT
         !.PackagePath = <<"p", "k", "g">>,
         !.Name = <<"M", "a", "p">>,
         !.TypeParams = <<[Name |-> <<"K">>, Constraint |-> <<>>], [Name |-> <<"V">>, Constraint |-> <<>>]>>],
      [ZeroSymbol EXCEPT
         !.PackagePath = <<"p", "k", "g">>,
         !.Name = <<"F", "u", "n", "c">>,
         !.Metadata = [Via |-> <<>>, Alias |-> <<>>,
                       Position |-> <<>>,
                       Custom |-> {<<<<"t", "e", "s", "t">>, <<"v", "a", "l", "u", "e">>>>}]]
    >>

(***************************************************************************)
(* The caller of the canonical codec: it parses a string, or constructs a  *)
(* Symbol, then formats the Symbol, formats it again through String, and   *)
(* parses what Format returned.                                            *)
(***************************************************************************)
NoResult == [err |-> FALSE, sym |-> <<>>]

Init ==
    /\ out = <<>>
    /\ out2 = <<>>
    /\ res2 = NoResult
    /\ \/ /\ codec = "parse"
          /\ pc = "start"
          /\ res = NoResult
          /\ \/ \E i \in 1..Len(DocumentedInputs) : input = DocumentedInputs[i]
             \/ \E i \in 1..Len(EdgeInputs) : input = EdgeInputs[i]
             \/ input \in GrammarInputs
             \/ input \in ShortInputs
       \/ /\ codec = "build"
          /\ pc = "decoded"
          /\ input = <<>>
          /\ \/ \E i \in 1..Len(TestedSymbols) : res = Ok(TestedSymbols[i])
             \/ \E s \in BuiltSymbols : res = Ok(s)

DoParse ==
    /\ codec = "parse"
    /\ pc = "start"
    /\ res' = Parse(input)
    /\ pc' = IF res'.err THEN "failed" ELSE "decoded"
    /\ UNCHANGED <<codec, input, out, out2, res2>>

DoFormat ==
    /\ codec \in {"parse", "build"}
    /\ pc = "decoded"
    /\ \E order \in MapOrders(res.sym[1].Metadata.Custom) :
          out' = Format(res.sym[1], order)
    /\ pc' = "encoded"
    /\ UNCHANGED <<codec, input, res, out2, res2>>

\* String() returns Format()
DoString ==
    /\ pc = "encoded"
    /\ \E order \in MapOrders(res.sym[1].Metadata.Custom) :
          out2' = Format(res.sym[1], order)
    /\ pc' = "encoded2"
    /\ UNCHANGED <<codec, input, res, out, res2>>

DoReparse ==
    /\ pc = "encoded2"
    /\ res2' = Parse(out)
    /\ pc' = "done"
    /\ UNCHANGED <<codec, input, res, out, out2>>

Next == DoParse \/ DoFormat \/ DoString \/ DoReparse

Spec == Init /\ [][Next]_vars

(***************************************************************************)
(* The caller of the SSA adapter: FromSSA, then ToSSA on the Symbol, then  *)
(* FromSSA on what ToSSA returned.                                         *)
(***************************************************************************)
\* the inputs of ssa_test.go
SSADocumentedInputs ==
    <<<<"f", "m", "t", ".", "P", "r", "i", "n", "t", "l", "n">>,
      <<"p", "k", "g", ".", "i", "n", "i", "t", "#", "1">>,
      <<"g", "i", "t", "h", "u", "b", ".", "c", "o", "m", "/", "u", "s", "e", "r", "/", "r", "e", "p", "o", ".", "i", "n", "i", "t", "#", "2">>,
      <<"n", "e", "t", "/", "h", "t", "t", "p", ".", "(", "H", "a", "n", "d", "l", "e", "r", "F", "u", "n", "c", ")", ".", "S", "e", "r", "v", "e", "H", "T", "T", "P">>,
      <<"n", "e", "t", "/", "h", "t", "t", "p", ".", "(", "*", "S", "e", "r", "v", "e", "r", ")", ".", "S", "e", "r", "v", "e">>,
      <<"m", "a", "i", "n", ".", "m", "a", "i", "n", "$", "1">>,
      <<"m", "a", "i", "n", ".", "m", "a", "i", "n", "$", "2">>,
      <<"p", "k", "g", ".", "F", "u", "n", "c", "t", "i", "o", "n", "@", "f", "i", "l", "e", ".", "g", "o", ":", "1", "0", ":", "5">>,
      <<"p", "k", "g", ".", "(", "*", "T", ")", ".", "M", "@", "f", ".", "g", "o", ":", "1", ":", "2">>,
      <<"i", "n", "v", "a", "l", "i", "d">>>>

SSAPkgPieces ==
    {<<"p", ".">>, <<"a", "/", "b", ".", "c", ".">>}

SSABodyPieces ==
    {<<"F">>, <<"i", "n", "i", "t">>, <<"i", "n", "i", "t", "#", "1">>,
     <<"i", "n", "i", "t", "#", "2">>, <<"i", "n", "i", "t", "#">>,
     <<"i", "n", "i", "t", "#", "1", "0">>,
     <<"(", "T", ")", ".", "M">>, <<"(", "*", "T", ")", ".", "M">>,
     <<"(", "*", "T", ")", ".", "M", "$", "1">>,
     <<"(", "*", ")", ".", "M">>, <<"(", ")", ".", "M">>,
     <<"(", "T", ")", ".">>, <<"(", "T", ")", "M">>, <<"F", "$">>,
     <<"F", "$", "x">>, <<"F", "$", "1", "$", "2">>, <<"F", "#", "1">>}
    \cup {<<"F", "$">> \o Itoa(i) : i \in 0..MaxIndex}

SSALocPieces ==
    {<<>>, <<"@", "f", ".", "g", "o", ":", "1", ":", "2">>,
     <<"@", "f", ":", "1">>, <<"@", ":", "1", ":", "2">>,
     <<"@", "f", ":", "x", ":", "2">>,
     <<"@", "a", "@", "b", ":", "1", ":", "2">>}

SSAGrammarInputs ==
    {p \o b \o l : p \in SSAPkgPieces, b \in SSABodyPieces, l \in SSALocPieces}

\* strings of the five SSA forms, with and without a position
SSAFormPackages ==
    {<<"m", "a", "i", "n">>, <<"n", "e", "t", "/", "h", "t", "t", "p">>,
     <<"g", "i", "t", "h", "u", "b", ".", "c", "o", "m", "/", "u", "s", "e", "r", "/", "r", "e", "p", "o">>}

SSAFormNames ==
    {<<"F">>, <<"i", "n", "i", "t">>, <<"m", "a", "i", "n">>,
     <<"S", "e", "r", "v", "e", "2">>}

SSAFormBodies ==
    SSAFormNames
    \cup {<<"i", "n", "i", "t", "#", "1">>}
    \cup {<<"(">> \o ty \o <<")", ".">> \o n : ty \in SSAFormNames, n \in SSAFormNames}
    \cup {<<"(", "*">> \o ty \o <<")", ".">> \o n : ty \in SSAFormNames, n \in SSAFormNames}
    \cup {n \o <<"$">> \o Itoa(i) : n \in SSAFormNames, i \in (1..MaxIndex) \cup {10, 12}}

SSAFormPositions ==
    {<<>>, <<"@", "f", ".", "g", "o", ":", "1", ":", "2">>,
     <<"@", "/", "s", "r", "c", "/", "a", ".", "b", "/", "f", "i", "l", "e", ".", "g", "o", ":", "1", "0", "0", ":", "0", "5">>,
     <<"@", "f", ":", "0", ":", "0">>}

SSAFormInputs ==
    {pk \o <<".">> \o b \o l :
        pk \in SSAFormPackages, b \in SSAFormBodies, l \in SSAFormPositions}

SSAAtoms ==
    {<<"p">>, <<".">>, <<"(">>, <<")">>, <<"*">>, <<"$">>, <<"#">>, <<"@">>,
     <<":">>, <<"1">>, <<"i", "n", "i", "t">>}

SSAShortInputs == StringsOver(SSAAtoms, MaxLen)

InitSSA ==
    /\ codec = "ssa"
    /\ pc = "start"
    /\ res = NoResult
    /\ out = <<>>
    /\ out2 = <<>>
    /\ res2 = NoResult
    /\ \/ \E i \in 1..Len(SSADocumentedInputs) : input = SSADocumentedInputs[i]
       \/ input \in SSAGrammarInputs
       \/ input \in SSAFormInputs
       \/ input \in SSAShortInputs

DoFromSSA ==
    /\ codec = "ssa"
    /\ pc = "start"
    /\ res' = FromSSA(input)
    /\ pc' = IF res'.err THEN "failed" ELSE "decoded"
    /\ UNCHANGED <<codec, input, out, out2, res2>>

DoToSSA ==
    /\ codec = "ssa"
    /\ pc = "decoded"
    /\ out' = ToSSA(res.sym[1])
    /\ pc' = "encoded"
    /\ UNCHANGED <<codec, input, res, out2, res2>>

DoFromSSAAgain ==
    /\ codec = "ssa"
    /\ pc = "encoded"
    /\ res2' = FromSSA(out)
    /\ pc' = "done"
    /\ UNCHANGED <<codec, input, res, out, out2>>

NextSSA == DoFromSSA \/ DoToSSA \/ DoFromSSAAgain

SpecSSA == InitSSA /\ [][NextSSA]_vars

(***************************************************************************)
(* The caller of the stack-trace adapter.                                  *)
(***************************************************************************)
\* the inputs of the stack-trace adapter's tests
TraceDocumentedInputs ==
    <<<<"m", "a", "i", "n", ".", "m", "a", "i", "n">>,
      <<"g", "i", "t", "h", "u", "b", ".", "c", "o", "m", "/", "u", "s", "e", "r", "/", "r", "e", "p", "o", ".", "F", "u", "n", "c", "t", "i", "o", "n">>,
      <<"n", "e", "t", "/", "h", "t", "t", "p", ".", "(", "*", "S", "e", "r", "v", "e", "r", ")", ".", "S", "e", "r", "v", "e">>,
      <<"p", "k", "g", ".", "i", "n", "i", "t", ".", "f", "u", "n", "c", "1">>,
      <<"m", "a", "i", "n", ".", "m", "a", "i", "n", ".", "f", "u", "n", "c", "1">>,
      <<"p", "k", "g", ".", "M", "a", "p", "[", "i", "n", "t", ",", " ", "s", "t", "r", "i", "n", "g", "]">>,
      <<"p", "k", "g", ".", "(", "*", "L", "i", "s", "t", "[", "T", "]", ")", ".", "A", "d", "d">>,
      <<"p", "k", "g", ".", "(", "*", "M", "a", "p", "[", "K", ",", " ", "V", "]", ")", ".", "G", "e", "t">>,
      <<"m", "a", "i", "n", ".", "m", "a", "i", "n", " ", "/", "p", "a", "t", "h", "/", "t", "o", "/", "f", "i", "l", "e", ".", "g", "o", ":", "1", "2", "3">>,
      <<"i", "n", "v", "a", "l", "i", "d">>,
      <<"p", "k", "g", ".", "F", "u", "n", "c", "t", "i", "o", "n">>>>

\* further inputs: type arguments that name a package path, trailing text
TraceEdgeInputs ==
    <<<<"p", "k", "g", ".", "M", "a", "p", "[", "i", "n", "t", ",", "n", "e", "t", "/", "h", "t", "t", "p", ".", "H", "e", "a", "d", "e", "r", "]">>,
      <<"p", "k", "g", ".", "(", "*", "L", "i", "s", "t", "[", "n", "e", "t", "/", "h", "t", "t", "p", ".", "H", "e", "a", "d", "e", "r", "]", ")", ".", "A", "d", "d">>,
      <<"p", "k", "g", ".", "M", "a", "p", "[", "a", "/", "b", ".", "T", ",", "i", "n", "t", "]">>,
      <<"p", "k", "g", ".", "(", "*", "T", ")", ".", "M", ".", "f", "u", "n", "c", "1">>,
      <<"p", "k", "g", ".", "M", "a", "p", "[", "i", "n", "t", ",", " ", "n", "e", "t", "/", "h", "t", "t", "p", ".", "H", "e", "a", "d", "e", "r", "]">>,
      <<"p", "k", "g", ".", "i", "n", "i", "t", ".", "f", "u", "n", "c", "1", " ", "+", "0", "x", "1", "d">>,
      <<"p", "k", "g", ".", "F", ".", "f", "u", "n", "c", "1", " ", "+", "0", "x", "1", "d">>,
      <<"m", "a", "i", "n", ".", "m", "a", "i", "n", ".", "f", "u", "n", "c", "2">>,
      <<"a", "/", "b", ".", "c", ".", "F", ".", "f", "u", "n", "c", "1", "2", " ", "/", "x", "/", "f", ".", "g", "o", ":", "1", "2">>>>

TracePkgPieces ==
    {<<"p", ".">>, <<"a", "/", "b", ".", "c", ".">>}

TraceBodyPieces ==
    {<<"F">>, <<"i", "n", "i", "t", ".", "f", "u", "n", "c", "1">>,
     <<"i", "n", "i", "t", ".", "f", "u", "n", "c", "2">>,
     <<"i", "n", "i", "t", ".", "f", "u", "n", "c", "1", "0">>,
     <<"i", "n", "i", "t">>, <<"F", ".", "f", "u", "n", "c", "1", "x">>,
     <<"(", "*", "T", ")", ".", "M">>, <<"(", "T", ")", ".", "M">>,
     <<"(", "*", "T", ")", ".", "M", ".", "f", "u", "n", "c", "1">>,
     <<"(", "*", "T", ")", ".">>, <<"(", "*", ")", ".", "M">>,
     <<"(", "*", "L", "[", "K", ",", " ", "V", "]", ")", ".", "M">>,
     <<"(", "*", "L", "[", "(", "K", ")", "]", ")", ".", "M">>,
     <<"(", "*", "L", "[", "K", ",", "a", "/", "b", ".", "T", "]", ")", ".", "M">>,
     <<"F", "[", "K", ",", " ", "V", "]">>,
     <<"F", "[", "K", ",", "V", "]">>,
     <<"F", "[", "K", ",", "a", "/", "b", ".", "T", "]">>,
     <<"F", "[", "a", "/", "b", ".", "T", ",", "V", "]">>,
     <<"F", "[", "M", "[", "K", ",", " ", "V", "]", ",", " ", "i", "n", "t", "]">>,
     <<"F", "[", "K", ",", ",", "V", "]">>, <<"F", "[", "]">>,
     <<"F", "[", "K">>, <<"F", "[", " ", "K", "]">>}
    \cup {<<"F", ".", "f", "u", "n", "c">> \o Itoa(i) : i \in 0..MaxIndex}

TraceFilePieces ==
    {<<>>, <<" ", "/", "x", "/", "f", ".", "g", "o", ":", "1", "2">>,
     <<" ", "f", ".", "g", "o", ":", "3">>, <<" ", "+", "0", "x", "1">>}

TraceGrammarInputs ==
    {p \o b \o f : p \in TracePkgPieces, b \in TraceBodyPieces, f \in TraceFilePieces}

TraceAtoms ==
    {<<"p">>, <<".">>, <<"(">>, <<")">>, <<"*">>, <<"[">>, <<"]">>, <<",">>,
     <<" ">>, <<"/">>, <<".", "f", "u", "n", "c", "1">>}

TraceShortInputs == StringsOver(TraceAtoms, MaxLen)

InitTrace ==
    /\ codec = "trace"
    /\ pc = "start"
    /\ res = NoResult
    /\ out = <<>>
    /\ out2 = <<>>
    /\ res2 = NoResult
    /\ \/ \E i \in 1..Len(TraceDocumentedInputs) : input = TraceDocumentedInputs[i]
       \/ \E i \in 1..Len(TraceEdgeInputs) : input = TraceEdgeInputs[i]
       \/ input \in TraceGrammarInputs
       \/ input \in TraceShortInputs

DoFromStackTrace ==
    /\ codec = "trace"
    /\ pc = "start"
    /\ res' = FromStackTrace(input)
    /\ pc' = IF res'.err THEN "failed" ELSE "decoded"
    /\ UNCHANGED <<codec, input, out, out2, res2>>

DoToStackTrace ==
    /\ codec = "trace"
    /\ pc = "decoded"
    /\ out' = ToStackTrace(res.sym[1])
    /\ pc' = "encoded"
    /\ UNCHANGED <<codec, input, res, out2, res2>>

DoFromStackTraceAgain ==
    /\ codec = "trace"
    /\ pc = "encoded"
    /\ res2' = FromStackTrace(out)
    /\ pc' = "done"
    /\ UNCHANGED <<codec, input, res, out, out2>>

NextTrace == DoFromStackTrace \/ DoToStackTrace \/ DoFromStackTraceAgain

SpecTrace == InitTrace /\ [][NextTrace]_vars

(***************************************************************************)
(* The caller of ToStackTrace on Symbols it constructs (as TestToStackTrace *)
(* does): it encodes a Symbol, encodes the Symbol that differs from it     *)
(* only in Receiver.IsPointer, and decodes the first output.               *)
(***************************************************************************)
\* the "value receiver method" Symbol of TestToStackTrace
TraceTestedMethod ==
    [ZeroSymbol EXCEPT !.PackagePath = <<"p", "k", "g">>,
                       !.Name = <<"M", "e", "t", "h", "o", "d">>,
                       !.Receiver = <<MakeReceiver(<<"T", "y", "p", "e">>, FALSE, <<>>)>>]

TraceBuiltTypeArgs ==
    {<<>>, <<<<"T">>>>, <<<<"K">>, <<"V">>>>,
     <<<<"i", "n", "t">>, <<"n", "e", "t", "/", "h", "t", "t", "p", ".", "H", "e", "a", "d", "e", "r">>>>}

TraceBuiltMethods ==
    {[ZeroSymbol EXCEPT !.PackagePath = pk, !.Name = n,
                        !.Receiver = <<MakeReceiver(ty, ptr, ta)>>] :
        pk \in {<<"p", "k", "g">>, <<"n", "e", "t", "/", "h", "t", "t", "p">>},
        n \in {<<"M">>, <<"S", "e", "r", "v", "e">>},
        ty \in {<<"T">>, <<"L", "i", "s", "t">>},
        ptr \in BOOLEAN,
        ta \in TraceBuiltTypeArgs}

\* s with the pointer flag of its receiver inverted
FlipPointer(s) ==
    IF s.Receiver = <<>> THEN s
    ELSE [s EXCEPT !.Receiver = <<[s.Receiver[1] EXCEPT !.IsPointer = ~@]>>]

InitTraceBuilt ==
    /\ codec = "tracebuild"
    /\ pc = "decoded"
    /\ input = <<>>
    /\ out = <<>>
    /\ out2 = <<>>
    /\ res2 = NoResult
    /\ \/ res = Ok(TraceTestedMethod)
       \/ \E s \in TraceBuiltMethods : res = Ok(s)

DoToStackTraceBuilt ==
    /\ codec = "tracebuild"
    /\ pc = "decoded"
    /\ out' = ToStackTrace(res.sym[1])
    /\ pc' = "encoded"
    /\ UNCHANGED <<codec, input, res, out2, res2>>

DoToStackTraceFlipped ==
    /\ codec = "tracebuild"
    /\ pc = "encoded"
    /\ out2' = ToStackTrace(FlipPointer(res.sym[1]))
    /\ pc' = "encoded2"
    /\ UNCHANGED <<codec, input, res, out, res2>>

DoFromStackTraceBuilt ==
    /\ codec = "tracebuild"
    /\ pc = "encoded2"
    /\ res2' = FromStackTrace(out)
    /\ pc' = "done"
    /\ UNCHANGED <<codec, input, res, out, out2>>

NextTraceBuilt == DoToStackTraceBuilt \/ DoToStackTraceFlipped \/ DoFromStackTraceBuilt

SpecTraceBuilt == InitTraceBuilt /\ [][NextTraceBuilt]_vars

(***************************************************************************)
(* A caller that holds one Symbol and calls the encoders on it in any      *)
(* order, any number of times.  res is the Symbol the encoders are handed  *)
(* (by pointer); res2 is the copy of it the caller took before the first   *)
(* call; out is the last output of Format or String, out2 the last output  *)
(* of an adapter; pc names the last call.  None of the encoders assigns to *)
(* a field of the Symbol or to an element of its slices or its map.        *)
(***************************************************************************)
\* init Symbols built field by field, whatever their name
BuiltInitSymbols ==
    {[ZeroSymbol EXCEPT !.PackagePath = pk, !.Name = n, !.IsInit = TRUE,
                        !.Metadata.Position = ps] :
        pk \in {<<"p">>, <<"a", "/", "b", ".", "c">>},
        n \in {<<"i", "n", "i", "t">>, <<"F">>, <<>>},
        ps \in {<<>>, <<"f", ".", "g", "o", ":", "1", ":", "2">>}}

InitEncoders ==
    /\ codec = "encode"
    /\ pc = "holding"
    /\ input = <<>>
    /\ out = <<>>
    /\ out2 = <<>>
    /\ \/ \E i \in 1..Len(TestedSymbols) : res = Ok(TestedSymbols[i])
       \/ \E s \in BuiltSymbols : res = Ok(s)
       \/ \E s \in TraceBuiltMethods : res = Ok(s)
       \/ \E s \in BuiltInitSymbols : res = Ok(s)
    /\ res2 = res

\* a variant in which Format empties the custom map it has rendered
CallFormatClearing ==
    /\ codec = "encode"
    /\ \E order \in MapOrders(res.sym[1].Metadata.Custom) :
          out' = Format(res.sym[1], order)
    /\ res' = Ok([res.sym[1] EXCEPT !.Metadata.Custom = {}])
    /\ pc' = "Format"
    /\ UNCHANGED <<codec, input, out2, res2>>

CallFormat ==
    /\ codec = "encode"
    /\ \E order \in MapOrders(res.sym[1].Metadata.Custom) :
          out' = Format(res.sym[1], order)
    /\ pc' = "Format"
    /\ UNCHANGED <<codec, input, res, out2, res2>>

CallString ==
    /\ codec = "encode"
    /\ \E order \in MapOrders(res.sym[1].Metadata.Custom) :
          out' = Format(res.sym[1], order)
    /\ pc' = "String"
    /\ UNCHANGED <<codec, input, res, out2, res2>>

CallToSSA ==
    /\ codec = "encode"
    /\ out2' = ToSSA(res.sym[1])
    /\ pc' = "ToSSA"
    /\ UNCHANGED <<codec, input, res, out, res2>>

CallToStackTrace ==
    /\ codec = "encode"
    /\ out2' = ToStackTrace(res.sym[1])
    /\ pc' = "ToStackTrace"
    /\ UNCHANGED <<codec, input, res, out, res2>>

NextEncoders == CallFormat \/ CallString \/ CallToSSA \/ CallToStackTrace

SpecEncoders == InitEncoders /\ [][NextEncoders]_vars

(***************************************************************************)
(* The caller that decodes a name twice, bare and with a location          *)
(* appended, as the table tests of both adapters do with their "with       *)
(* location" and "with file info" rows.  input is the bare name, res its   *)
(* decoding; out is the name with the location appended, res2 its          *)
(* decoding.                                                               *)
(***************************************************************************)
SSALocations ==
    {<<"@", "f", ".", "g", "o", ":", "1", ":", "2">>,
     <<"@", "/", "s", "r", "c", "/", "a", ".", "b", "/", "f", "i", "l", "e", ".", "g", "o", ":", "1", "0", "0", ":", "0", "5">>}

TraceLocations ==
    {<<" ", "/", "x", "/", "f", ".", "g", "o", ":", "1", "2">>,
     <<" ", "/", "p", "a", "t", "h", "/", "t", "o", "/", "f", "i", "l", "e", ".", "g", "o", ":", "1", "2", "3">>}

InitLocated ==
    /\ pc = "start"
    /\ res = NoResult
    /\ out = <<>>
    /\ out2 = <<>>
    /\ res2 = NoResult
    /\ \/ /\ codec = "ssaloc"
          /\ \/ \E i \in 1..Len(SSADocumentedInputs) : input = SSADocumentedInputs[i]
             \/ input \in SSAGrammarInputs
             \/ input \in SSAFormInputs
             \/ input \in SSAShortInputs
       \/ /\ codec = "traceloc"
          /\ \/ \E i \in 1..Len(TraceDocumentedInputs) : input = TraceDocumentedInputs[i]
             \/ \E i \in 1..Len(TraceEdgeInputs) : input = TraceEdgeInputs[i]
             \/ input \in TraceGrammarInputs
             \/ input \in TraceShortInputs

DoFromSSABare ==
    /\ codec = "ssaloc"
    /\ pc = "start"
    /\ res' = FromSSA(input)
    /\ pc' = IF res'.err THEN "failed" ELSE "decoded"
    /\ UNCHANGED <<codec, input, out, out2, res2>>

DoFromSSALocated ==
    /\ codec = "ssaloc"
    /\ pc = "decoded"
    /\ \E loc \in SSALocations : out' = input \o loc
    /\ res2' = FromSSA(out')
    /\ pc' = "located"
    /\ UNCHANGED <<codec, input, res, out2>>

DoFromStackTraceBare ==
    /\ codec = "traceloc"
    /\ pc = "start"
    /\ res' = FromStackTrace(input)
    /\ pc' = IF res'.err THEN "failed" ELSE "decoded"
    /\ UNCHANGED <<codec, input, out, out2, res2>>

DoFromStackTraceLocated ==
    /\ codec = "traceloc"
    /\ pc = "decoded"
    /\ \E loc \in TraceLocations : out' = input \o loc
    /\ res2' = FromStackTrace(out')
    /\ pc' = "located"
    /\ UNCHANGED <<codec, input, res, out2>>

NextLocated ==
    \/ DoFromSSABare
    \/ DoFromSSALocated
    \/ DoFromStackTraceBare
    \/ DoFromStackTraceLocated

SpecLocated == InitLocated /\ [][NextLocated]_vars


(***************************************************************************)
(* The three adapter callers side by side: names decoded and re-encoded    *)
(* by the SSA adapter, by the trace adapter, and Symbols handed to the     *)
(* encoders.                                                               *)
(***************************************************************************)
InitAdapters == InitSSA \/ InitTrace \/ InitEncoders

NextAdapters == NextSSA \/ NextTrace \/ NextEncoders

SpecAdapters == InitAdapters /\ [][NextAdapters]_vars


(***************************************************************************)
(* The convert command: Parse on the input, then ToSSA and ToStackTrace    *)
(* on the Symbol; the Symbols built field by field enter at "decoded".     *)
(* out is what ToSSA returned, out2 what ToStackTrace returned.            *)
(***************************************************************************)
DoConvertSSA ==
    /\ codec \in {"parse", "build"}
    /\ pc = "decoded"
    /\ out' = ToSSA(res.sym[1])
    /\ pc' = "ssa"
    /\ UNCHANGED <<codec, input, res, out2, res2>>

DoConvertStackTrace ==
    /\ codec \in {"parse", "build"}
    /\ pc = "ssa"
    /\ out2' = ToStackTrace(res.sym[1])
    /\ pc' = "converted"
    /\ UNCHANGED <<codec, input, res, out, res2>>

NextConvert == DoParse \/ DoConvertSSA \/ DoConvertStackTrace

SpecConvert == Init /\ [][NextConvert]_vars


(***************************************************************************)
(* The caller of parseTypeArgs: the function applied to a list directly,   *)
(* and through Parse to the list placed in the brackets after a name.      *)
(***************************************************************************)
\* the inputs of TestParseTypeArgs
TypeArgsDocumentedInputs ==
    <<<<"s", "t", "r", "i", "n", "g", ",", " ", "i", "n", "t">>,
      <<"M", "a", "p", "[", "s", "t", "r", "i", "n", "g", ",", " ", "i", "n", "t", "]", ",", " ", "[", "]", "b", "y", "t", "e">>,
      <<"c", "h", "a", "n", " ", "M", "a", "p", "[", "K", ",", " ", "V", "]", ",", " ", "*", "S", "l", "i", "c", "e", "[", "T", "]">>,
      <<"T">>,
      <<"T", " ", "c", "o", "m", "p", "a", "r", "a", "b", "l", "e", ",", " ", "U", " ", "a", "n", "y">>,
      <<>>,
      <<"M", "a", "p", "[", "K", ",", " ", "V", "]", ",", " ", "L", "i", "s", "t", "[", "T", "]">>>>

TypeArgElements ==
    {<<"K">>, <<" ", "T", " ">>, <<>>,
     <<"M", "[", "K", ",", " ", "V", "]">>,
     <<"f", "(", "a", ",", " ", "b", ")">>, <<"[", "]", "b">>,
     <<"M", "[", "(", "a", ",", "b", ")", "]">>, <<"a", "]">>, <<"(", "b">>}

TypeArgLists ==
    TypeArgElements
    \cup {a \o <<",">> \o b : a \in TypeArgElements, b \in TypeArgElements}
    \cup {a \o <<",">> \o b \o <<",">> \o c :
            a \in TypeArgElements, b \in TypeArgElements, c \in TypeArgElements}

TypeArgAtoms ==
    {<<"K">>, <<",">>, <<" ">>, <<"[">>, <<"]">>, <<"(">>, <<")">>}

TypeArgShortInputs == StringsOver(TypeArgAtoms, MaxLen)

GenericPrefix == <<"p", "k", "g", ".", "F", "[">>

\* the lists that hold none of the bytes Parse looks at before the name
BracketedLists == {a \in TypeArgLists : ~Contains(a, <<")", ".">>)}

InitTypeArgs ==
    /\ pc = "start"
    /\ res = NoResult
    /\ out = <<>>
    /\ out2 = <<>>
    /\ res2 = NoResult
    /\ \/ /\ codec = "typeargs"
          /\ \/ \E i \in 1..Len(TypeArgsDocumentedInputs) :
                   input = TypeArgsDocumentedInputs[i]
             \/ input \in TypeArgLists
             \/ input \in TypeArgShortInputs
       \/ /\ codec = "parse"
          /\ \/ input = DocumentedInputs[16]
             \/ \E a \in BracketedLists : input = GenericPrefix \o a \o <<"]">>

DoParseTypeArgs ==
    /\ codec = "typeargs"
    /\ pc = "start"
    /\ out' = parseTypeArgs(input)
    /\ pc' = "done"
    /\ UNCHANGED <<codec, input, res, out2, res2>>

NextTypeArgs == DoParseTypeArgs \/ DoParse

SpecTypeArgs == InitTypeArgs /\ [][NextTypeArgs]_vars

(***************************************************************************)
(* Properties of the canonical codec, checked under Spec.                  *)
(***************************************************************************)
Parsed == codec = "parse" /\ pc # "start" /\ ~res.err

Formatted == pc \in {"encoded", "encoded2", "done"}

Braces == {"{", "}"}

BraceCount(s) == Cardinality({i \in 1..Len(s) : s[i] \in Braces})

RECURSIVE BraceCountAll(_)
BraceCountAll(ss) ==
    IF ss = <<>> THEN 0 ELSE BraceCount(ss[1]) + BraceCountAll(Tail(ss))

\* the braces in the fields Format renders before the metadata block
FieldBraces(s) ==
    BraceCount(s.PackagePath) + BraceCount(s.Name) + BraceCount(s.Context)
    + (IF s.Receiver = <<>> THEN 0
       ELSE BraceCount(s.Receiver[1].TypeName)
            + BraceCountAll(s.Receiver[1].TypeArgs))
    + (IF Len(s.TypeArgs) > 0 THEN BraceCountAll(s.TypeArgs)
       ELSE BraceCountAll([i \in 1..Len(s.TypeParams) |->
                             s.TypeParams[i].Name \o s.TypeParams[i].Constraint]))

\* C1 (as claimed): format-then-parse identity.  For every Symbol s that
\* Parse returns, Parse(Format(s)) succeeds and returns a Symbol equal to s
\* in every field.
C1_FormatThenParseIdentity ==
    (codec = "parse" /\ pc = "done") => (~res2.err /\ res2.sym = res.sym)

\* C4 (as claimed): for every Symbol whose metadata is all empty, those
\* returned by Parse included, the output of Format contains neither '{'
\* nor '}'.
C4_NoBraceInOutput ==
    (Formatted /\ ~hasMetadata(res.sym[1].Metadata)) => BraceCount(out) = 0

\* C4 (amended): for a Symbol whose metadata is all empty, Format appends
\* no metadata block and never an empty "{}": the output holds exactly the
\* braces of the fields it renders, so none when those fields hold none.
C4_NoMetadataBlockWhenEmpty ==
    (Formatted /\ ~hasMetadata(res.sym[1].Metadata)) =>
        /\ BraceCount(out) = FieldBraces(res.sym[1])
        /\ FieldBraces(res.sym[1]) = 0 => ~ContainsAny(out, Braces)

\* C4 witness: Parse stripped an empty "{}" block, the Symbol's metadata is
\* all empty, and Format has rendered it without a brace.
C4_Witness ==
    /\ codec = "parse" /\ pc = "encoded"
    /\ HasSuffix(input, <<"{", "}">>)
    /\ ~hasMetadata(res.sym[1].Metadata)
    /\ ~ContainsAny(out, Braces)

\* C5 (as claimed): Format output does not depend on the order of the
\* custom metadata map: two calls on Symbols with the same content (here
\* the same Symbol, through Format and through String) return the same
\* bytes.
C5_DeterministicCustomOrder ==
    pc \in {"encoded2", "done"} => out2 = out

\* C9 (as claimed): every Symbol returned by Parse has anon_index >= 0.
C9_AnonIndexNonNegative ==
    Parsed => res.sym[1].AnonIndex >= 0

\* C10 (as claimed): every Symbol returned by Parse has a non-empty
\* package path and a non-empty name.
C10_NonEmptyIdentity ==
    Parsed => (res.sym[1].PackagePath # <<>> /\ res.sym[1].Name # <<>>)

StructuralAfterAt == {".", "[", "(", "{", "@"}

\* the input is package "." name with a '[' in the name and no ']' at all
UnclosedNameBracket(s) ==
    /\ Contains(s, <<"[">>) /\ ~Contains(s, <<"]">>)
    /\ ~ContainsAny(s, {"@", "{", "}", "(", ")"}) /\ ~Contains(s, ParseLitSep)
    /\ \E d \in 2..Index(s, <<"[">>) : s[d] = "."

\* C6 (as claimed): Parse returns an error for the empty string, for input
\* with no '.' or whose only '.' is leading or trailing, for input that
\* contains ".(" but no ").", for input ending in '@', for a name with '['
\* but no closing ']', and for a receiver with no method name after ").";
\* and whenever it returns an error the returned Symbol is nil.
C6_StructuralErrors ==
    (codec = "parse" /\ pc # "start") =>
        /\ input = <<>> => res.err
        /\ ~Contains(input, <<".">>) => res.err
        /\ (Cardinality(Occurrences(input, <<".">>)) = 1
              /\ (input[1] = "." \/ input[Len(input)] = ".")) => res.err
        /\ (Contains(input, <<".", "(">>) /\ ~Contains(input, <<")", ".">>))
              => res.err
        /\ HasSuffix(input, <<"@">>) => res.err
        /\ UnclosedNameBracket(input) => res.err
        /\ HasSuffix(input, <<")", ".">>) => res.err
        /\ res.err => res.sym = <<>>

\* C8 (as claimed): Parse returns an error whenever an unbracketed '@' is
\* followed by the end of the string or by a structural character, and no
\* returned Symbol has a context that begins with a structural character.
C8_EmptyContextModifier ==
    (codec = "parse" /\ pc # "start") =>
        /\ LET idx == LastIndex(input, <<"@">>)
           IN  (/\ ~ContainsAny(input, Braces)
                /\ idx > 0 /\ BracketCount(input, idx) = 0
                /\ (idx = Len(input) - 1 \/ input[idx + 2] \in StructuralAfterAt))
               => res.err
        /\ (~res.err /\ res.sym[1].Context # <<>>)
               => res.sym[1].Context[1] \notin StructuralAfterAt

PathStructural == {"(", ")", "[", "]", "{", "}"}

\* C11 (as claimed): for every Symbol returned by Parse, the package path
\* contains none of '(' ')' '[' ']' '{' '}'; an input whose split would put
\* such a character into the package path is rejected.
C11_PackagePathNoStructural ==
    Parsed => ~ContainsAny(res.sym[1].PackagePath, PathStructural)

InitName == <<"i", "n", "i", "t">>

\* how many of the three kinds (init, anonymous, method) s has
KindCount(s) ==
    (IF s.IsInit THEN 1 ELSE 0) + (IF s.IsAnonymous THEN 1 ELSE 0)
    + (IF s.Receiver # <<>> THEN 1 ELSE 0)

\* the text is package "." "init", then nothing, an '@' or a '{'
IsInitInput(text, packagePath) ==
    LET head == packagePath \o <<".">> \o InitName
    IN  /\ HasPrefix(text, head)
        /\ Len(text) > Len(head) => text[Len(head) + 1] \in {"@", "{"}

\* C12: in every Symbol returned by Parse at most one of is_init,
\* is_anonymous and receiver-present holds; is_init implies name "init", no
\* receiver, not anonymous and no type arguments; is_init is set only when
\* the symbol part is exactly "init", so "pkg.(*T).init" is a method named
\* init and not an init function.
C12_KindExclusivity ==
    Parsed =>
        LET s == res.sym[1]
        IN  /\ KindCount(s) <= 1
            /\ s.IsInit =>
                 /\ s.Name = InitName
                 /\ s.Receiver = <<>>
                 /\ ~s.IsAnonymous
                 /\ s.TypeArgs = <<>>
                 /\ IsInitInput(input, s.PackagePath)
            /\ ~IsInitInput(input, s.PackagePath) => ~s.IsInit

\* C12 witness: "pkg.(*T).init" has been parsed as a method named init with
\* a receiver, and is_init is not set.
C12_Witness ==
    /\ Parsed
    /\ input = EdgeInputs[4]
    /\ res.sym[1].Receiver # <<>>
    /\ res.sym[1].Name = InitName
    /\ ~res.sym[1].IsInit

\* what Format writes before the bracket group: package, receiver, name
FormatHead(s) == s.PackagePath \o <<".">> \o FormatReceiver(s) \o FormatName(s)

\* text is empty or begins the context or the metadata block
EndsGenerics(text) == text = <<>> \/ text[1] \in {"@", "{"}

AnyConstraint == <<"a", "n", "y">>

\* the rendering of one type parameter: its name alone, or name, a space
\* and the constraint
RenderedTypeParam(tp) ==
    IF tp.Constraint = <<>> \/ tp.Constraint = AnyConstraint THEN tp.Name
    ELSE tp.Name \o <<" ">> \o tp.Constraint

ProcessRendered ==
    <<"p", "k", "g", ".", "P", "r", "o", "c", "e", "s", "s", "[", "T", " ", "c", "o", "m", "p", "a", "r", "a", "b", "l", "e", ",", " ", "U", "]">>

MapRendered ==
    <<"p", "k", "g", ".", "M", "a", "p", "[", "K", ",", " ", "V", "]">>

\* C14: Format renders each TypeParam as its name alone when its constraint
\* is empty or "any" and as name, one space, constraint otherwise, and joins
\* the parameters with ", "; {T comparable},{U any} on pkg.Process renders
\* "pkg.Process[T comparable, U]".
C14_TypeParamRendering ==
    Formatted =>
        LET s == res.sym[1]
            group == <<"[">>
                     \o Join([i \in 1..Len(s.TypeParams) |->
                                RenderedTypeParam(s.TypeParams[i])], <<",", " ">>)
                     \o <<"]">>
        IN  /\ (Len(s.TypeArgs) = 0 /\ Len(s.TypeParams) > 0) =>
                 /\ HasPrefix(out, FormatHead(s) \o group)
                 /\ EndsGenerics(SliceFrom(out, Len(FormatHead(s) \o group)))
            /\ s = TestedSymbols[4] => out = ProcessRendered
            /\ s = TestedSymbols[10] => out = MapRendered

\* C14 witness: the Symbol pkg.Process with {T comparable} and {U any} has
\* been formatted as "pkg.Process[T comparable, U]".
C14_Witness ==
    /\ Formatted
    /\ res.sym[1] = TestedSymbols[4]
    /\ out = ProcessRendered

\* the anonymous form the rendering rule prescribes for s: name, U+00B7,
\* "lit", and the decimal index when it is positive
AnonymousForm(s) ==
    s.PackagePath \o <<".">> \o s.Name \o ParseLitSep
    \o (IF s.AnonIndex > 0 THEN Itoa(s.AnonIndex) ELSE <<>>)

MainLitRendered ==
    <<"m", "a", "i", "n", ".", "m", "a", "i", "n", "C2", "B7", "l", "i", "t">>

HandlerLit3Rendered ==
    <<"m", "a", "i", "n", ".", "h", "a", "n", "d", "l", "e", "r", "C2", "B7", "l", "i", "t", "3">>

\* C15 (as claimed): for every Symbol with is_anonymous set, Format and
\* String write package_path, '.', name, the separator U+00B7 (bytes C2 B7),
\* "lit", and the decimal anon_index only when it is positive, so
\* {main, main, anonymous} gives "main.main·lit" and index 3 on handler
\* gives "main.handler·lit3"; the separator Format writes is the byte
\* sequence Parse searches for.
C15_AnonymousRendering ==
    /\ (Formatted /\ res.sym[1].IsAnonymous /\ res.sym[1].Receiver = <<>>) =>
          /\ HasPrefix(out, AnonymousForm(res.sym[1]))
          /\ res.sym[1].TypeArgs = <<>> =>
                EndsGenerics(SliceFrom(out, Len(AnonymousForm(res.sym[1]))))
          /\ pc \in {"encoded2", "done"} =>
                HasPrefix(out2, AnonymousForm(res.sym[1]))
          /\ FormatLitSep = ParseLitSep
    /\ (Formatted /\ res.sym[1] = TestedSymbols[1]) => out = MainLitRendered
    /\ (Formatted /\ res.sym[1] = TestedSymbols[2]) => out = HandlerLit3Rendered

\* the recognized metadata fields in their fixed order, as <<label, value>>
RecognizedFields(m) ==
    <<<<<<"v", "i", "a", ":">>, m.Via>>,
      <<<<"a", "l", "i", "a", "s", ":">>, m.Alias>>,
      <<<<"p", "o", "s", ":">>, m.Position>>>>

HasValue(field) == field[2] # <<>>

\* the items the rendering rule prescribes: the non-empty recognized fields,
\* then the custom entries in the order given
PrescribedItems(m, order) ==
    LET fields == SelectSeq(RecognizedFields(m), HasValue)
    IN  [i \in 1..Len(fields) |-> fields[i][1] \o fields[i][2]]
        \o [i \in 1..Len(order) |-> order[i][1] \o <<":">> \o order[i][2]]

\* the bracket group the rendering rules prescribe for s
PrescribedGenerics(s) ==
    IF Len(s.TypeArgs) > 0
    THEN <<"[">> \o Join(s.TypeArgs, <<",", " ">>) \o <<"]">>
    ELSE IF Len(s.TypeParams) > 0
    THEN <<"[">>
         \o Join([i \in 1..Len(s.TypeParams) |-> RenderedTypeParam(s.TypeParams[i])],
                 <<",", " ">>)
         \o <<"]">>
    ELSE <<>>

MultiWriterRendered ==
    <<"i", "o", ".", "(", "*", "M", "u", "l", "t", "i", "W", "r", "i", "t", "e", "r", ")", ".", "W", "r", "i", "t", "e", "{", "v", "i", "a", ":", "W", "r", "i", "t", "e", "r", ",", "p", "o", "s", ":", "m", "u", "l", "t", "i", ".", "g", "o", ":", "2", "5", ":", "1", "}">>

ComplexRendered ==
    <<"p", "k", "g", ".", "(", "*", "S", "e", "r", "v", "e", "r", "[", "T", ",", " ", "U", "]", ")", ".", "H", "a", "n", "d", "l", "e", "[", "s", "t", "r", "i", "n", "g", ",", " ", "i", "n", "t", "]", "@", "l", "i", "n", "u", "x", "{", "v", "i", "a", ":", "B", "a", "s", "e", "S", "e", "r", "v", "e", "r", "[", "T", ",", " ", "U", "]", ",", "p", "o", "s", ":", "s", "e", "r", "v", "e", "r", ".", "g", "o", ":", "1", "0", "0", ":", "5", ",", "d", "e", "p", "r", "e", "c", "a", "t", "e", "d", ":", "t", "r", "u", "e", "}">>

\* C16: when a Symbol has metadata content, Format writes package,
\* receiver, name, generics, '@' context and then one '{...}' block that
\* holds the non-empty fields among "via:", "alias:", "pos:" in that order,
\* followed by every custom entry as key:value, joined by ',' with no
\* spaces.
C16_MetadataRenderingOrder ==
    Formatted =>
        LET s == res.sym[1]
            m == s.Metadata
        IN  /\ hasMetadata(m) =>
                 \E order \in MapOrders(m.Custom) :
                    out = FormatHead(s) \o PrescribedGenerics(s)
                          \o (IF s.Context # <<>> THEN <<"@">> \o s.Context ELSE <<>>)
                          \o <<"{">> \o Join(PrescribedItems(m, order), <<",">>)
                          \o <<"}">>
            /\ s = TestedSymbols[7] => out = MultiWriterRendered
            /\ s = TestedSymbols[8] => out = ComplexRendered

\* C16 witness: a Symbol with via, alias, position, a custom entry and a
\* context has been formatted.
C16_Witness ==
    /\ Formatted
    /\ res.sym[1].Metadata.Via # <<>> /\ res.sym[1].Metadata.Alias # <<>>
    /\ res.sym[1].Metadata.Position # <<>> /\ res.sym[1].Metadata.Custom # {}
    /\ res.sym[1].Context # <<>>
    /\ HasSuffix(out, <<"k", ":", "v", "}">>)

NestedViaShort ==
    <<"{", "v", "i", "a", ":", "C", "{", "v", "i", "a", ":", "L", "}", "}">>

\* C20 (as claimed): for an input whose metadata block is a nested
\* promotion, such as "myapp.(*App).Start{via:Component{via:Lifecycle}}",
\* Parse strips the whole outer '{...}' block: the name is "Start", the
\* receiver *App, via is "Component{via:Lifecycle}", and no part of the
\* block remains in the name.
C20_NestedViaMetadata ==
    /\ (codec = "parse" /\ pc # "start" /\ input = DocumentedInputs[17]) =>
          /\ ~res.err
          /\ res.sym[1].Name = <<"S", "t", "a", "r", "t">>
          /\ res.sym[1].Receiver = <<MakeReceiver(<<"A", "p", "p">>, TRUE, <<>>)>>
          /\ res.sym[1].Metadata.Via = <<"C", "o", "m", "p", "o", "n", "e", "n", "t", "{", "v", "i", "a", ":", "L", "i", "f", "e", "c", "y", "c", "l", "e", "}">>
    /\ (Parsed /\ HasSuffix(input, NestedViaShort)) =>
          /\ res.sym[1].Metadata.Via = <<"C", "{", "v", "i", "a", ":", "L", "}">>
          /\ ~ContainsAny(res.sym[1].Name, Braces)

\* C21 (as claimed): a metadata value that holds a comma inside '[...]'
\* survives parsing: "pkg.(*S[T, U]).Handle{via:Base[T, U],pos:f.go:1:1}"
\* has via "Base[T, U]", and Parse(Format(s)) keeps via for the Symbol of
\* the "complex with all features" test of the formatter.
C21_MetadataBracketedCommas ==
    /\ (codec = "parse" /\ pc # "start" /\ input = EdgeInputs[6]) =>
          /\ ~res.err
          /\ res.sym[1].Metadata.Via = <<"B", "a", "s", "e", "[", "T", ",", " ", "U", "]">>
          /\ res.sym[1].Metadata.Position = <<"f", ".", "g", "o", ":", "1", ":", "1">>
    /\ (codec = "build" /\ pc = "done" /\ res.sym[1] = TestedSymbols[8]) =>
          /\ ~res2.err
          /\ res2.sym[1].Metadata.Via = res.sym[1].Metadata.Via

\* the input after the metadata block and the context are stripped
StrippedInput(in) == ExtractContext(ExtractMetadata(in).rest).rest

\* the text of s before its last '.', where s holds a '.'
BeforeLastDot(s) == Slice(s, 0, LastIndex(s, <<".">>))

\* C22 (as claimed): when the input, after metadata and context are
\* stripped, holds no ")." but holds '[', the package path is the text
\* before the last '.' that precedes the first '[', so a dot inside the
\* type-argument list never moves the package boundary; without '[' the
\* split is at the last '.' of the whole string.
C22_GenericPackageSplit ==
    (Parsed /\ ~Contains(StrippedInput(input), <<")", ".">>)) =>
        LET core   == StrippedInput(input)
            before == Slice(core, 0, Index(core, <<"[">>))
        IN  IF Contains(core, <<"[">>)
            THEN /\ Contains(before, <<".">>)
                 /\ res.sym[1].PackagePath = BeforeLastDot(before)
            ELSE res.sym[1].PackagePath = BeforeLastDot(core)

\* C23: every anonymous Symbol returned by Parse has
\* AnonParent = PackagePath + "." + Name, also when the enclosing name carries
\* a generic argument list.
C23_AnonParentReconstruction ==
    (Parsed /\ res.sym[1].IsAnonymous) =>
        res.sym[1].AnonParent =
            res.sym[1].PackagePath \o <<".">> \o res.sym[1].Name

\* the symbol part Parse classifies: what follows the package separator once
\* metadata and context are stripped
SymbolPartOf(in) == SplitPackage(StrippedInput(in)).symbolPart

MethodLitInput == DocumentedInputs[5]

\* C24: classification priority is init, then anonymous, then method, then
\* bare name.  A symbol part holding "·lit" is anonymous even when it begins
\* with a receiver, a Symbol gets a receiver only when its symbol part is not
\* "init" and holds no "·lit", and "main.(*Server).Start·lit2" is the
\* anonymous function 2 of "main.(*Server).Start" with no receiver.
C24_ClassificationPriority ==
    Parsed =>
        LET part == SymbolPartOf(input)
            sym  == res.sym[1]
        IN  /\ part = InitName =>
                  sym.IsInit /\ ~sym.IsAnonymous /\ sym.Receiver = <<>>
            /\ (part # InitName /\ Contains(part, ParseLitSep)) =>
                  sym.IsAnonymous /\ ~sym.IsInit /\ sym.Receiver = <<>>
            /\ sym.Receiver # <<>> =>
                  /\ part # InitName
                  /\ ~Contains(part, ParseLitSep)
                  /\ HasPrefix(part, <<"(">>)
            /\ input = MethodLitInput =>
                  /\ sym.Receiver = <<>>
                  /\ sym.Name = Slice(MethodLitInput, 5, 20)
                  /\ sym.AnonParent = Slice(MethodLitInput, 0, 20)
                  /\ sym.AnonIndex = 2

C24_Witness ==
    /\ Parsed
    /\ input = MethodLitInput
    /\ res.sym[1].IsAnonymous
    /\ HasPrefix(SymbolPartOf(input), <<"(">>)

\* the three pieces of a symbol part around its first "·lit"
LitName(part) == Slice(part, 0, Index(part, ParseLitSep))

LitRest(part) == SliceFrom(part, Index(part, ParseLitSep) + Len(ParseLitSep))

LitCut(part) == Slice(part, 0, Index(part, ParseLitSep) + Len(ParseLitSep))

\* the input has a symbol part of the form name·lit<rest> with <rest>
\* non-empty and no integer
HasNonIntegerLitRest(in) ==
    LET sp == SplitPackage(StrippedInput(in))
    IN  /\ ~ExtractContext(ExtractMetadata(in).rest).err
        /\ ~sp.err
        /\ sp.packagePath # <<>>
        /\ sp.symbolPart # InitName
        /\ Contains(sp.symbolPart, ParseLitSep)
        /\ LitRest(sp.symbolPart) # <<>>
        /\ Atoi(LitRest(sp.symbolPart)).err

LitGenericInput == EdgeInputs[34]

C2_SSARoundTrip ==
    (codec = "ssa" /\ pc = "done") => (~res2.err /\ res2.sym = res.sym)

\* what ToSSA and FromSSA return for s: ToSSA writes "$1" for an anonymous
\* function of index 0, which FromSSA reads as index 1
SSANormalised(s) ==
    [s EXCEPT !.AnonIndex = IF s.IsAnonymous /\ @ = 0 THEN 1 ELSE @]

\* C2 (amended): for every x on which FromSSA succeeds, with s = FromSSA(x),
\* FromSSA(ToSSA(s)) succeeds and equals s in every field, metadata.position
\* included, except that an anon_index of 0 (read from "$0") comes back as 1.
C2_SSARoundTripUpToIndexZero ==
    (codec = "ssa" /\ pc = "done") =>
        (~res2.err /\ res2.sym = <<SSANormalised(res.sym[1])>>)

\* C2 witness: an anonymous function with a numeral of at least 1 and a
\* location has gone through ToSSA and FromSSA and come back unchanged.
C2_Witness ==
    /\ codec = "ssa" /\ pc = "done"
    /\ res.sym[1].IsAnonymous /\ res.sym[1].AnonIndex >= 1
    /\ res.sym[1].Metadata.Position # <<>>
    /\ res2.sym = res.sym

SSAReserved ==
    {".", "(", ")", "*", "$", "#", "@", ":", "/", " ", "[", "]", "{", "}", ","}

\* a non-empty name without a reserved character
IsSSAName(s) == s # <<>> /\ \A i \in 1..Len(s) : s[i] \notin SSAReserved

\* a package path: names joined by '.' or '/'
IsSSAPackage(s) ==
    /\ s # <<>>
    /\ \A i \in 1..Len(s) : s[i] \notin (SSAReserved \ {".", "/"})
    /\ s[1] \notin {".", "/"} /\ s[Len(s)] \notin {".", "/"}

\* a decimal numeral of value at least 1, without a leading zero
IsPositiveNumeral(s) == AllDigits(s) /\ s[1] # "0"

\* Name, init#1, (T).M, (*T).M or Name$N
IsSSABody(b) ==
    \/ IsSSAName(b)
    \/ b = <<"i", "n", "i", "t", "#", "1">>
    \/ \E k \in 2..(Len(b) - 2) :
          /\ b[1] = "(" /\ b[k + 1] = ")" /\ b[k + 2] = "."
          /\ IsSSAName(SubSeq(b, k + 3, Len(b)))
          /\ \/ IsSSAName(SubSeq(b, 2, k))
             \/ b[2] = "*" /\ IsSSAName(SubSeq(b, 3, k))
    \/ \E k \in 2..(Len(b) - 1) :
          /\ b[k] = "$"
          /\ IsSSAName(SubSeq(b, 1, k - 1))
          /\ IsPositiveNumeral(SubSeq(b, k + 1, Len(b)))

IsSSACore(c) ==
    \E d \in 2..(Len(c) - 1) :
       /\ c[d] = "."
       /\ IsSSAPackage(SubSeq(c, 1, d - 1))
       /\ IsSSABody(SubSeq(c, d + 1, Len(c)))

\* file:line:col
IsSSAPosition(l) ==
    LET parts == Split(l, ":")
    IN  /\ Len(parts) = 3
        /\ parts[1] # <<>> /\ ~Contains(parts[1], <<"@">>)
        /\ AllDigits(parts[2]) /\ AllDigits(parts[3])

\* one of the SSA forms, optionally followed by @file:line:col
IsSSAForm(x) ==
    \/ IsSSACore(x)
    \/ \E a \in 2..(Len(x) - 1) :
          /\ x[a] = "@"
          /\ IsSSACore(SubSeq(x, 1, a - 1))
          /\ IsSSAPosition(SubSeq(x, a + 1, Len(x)))

\* C17: for every SSA string x of the form pkg.Name, pkg.init#1, pkg.(T).M,
\* pkg.(*T).M or pkg.Name$N with N >= 1, optionally followed by
\* @file:line:col, FromSSA(x) succeeds and ToSSA(FromSSA(x)) = x.
C17_SSAStringRoundTrip ==
    (codec = "ssa" /\ IsSSAForm(input)) =>
        /\ pc # "start" => ~res.err
        /\ pc \in {"encoded", "done"} => out = input

\* C17 witness: an anonymous-function string with a numeral and a position
\* has gone through FromSSA and ToSSA and come back byte for byte.
C17_Witness ==
    /\ codec = "ssa" /\ pc = "encoded"
    /\ IsSSAForm(input)
    /\ Contains(input, <<"$", "2">>) /\ Contains(input, <<"@">>)
    /\ out = input

\* C3 (as claimed): trace self round trip.  For every x on which
\* FromStackTrace succeeds, FromStackTrace(ToStackTrace(FromStackTrace(x)))
\* succeeds and equals FromStackTrace(x) in every field.
C3_TraceRoundTrip ==
    (codec = "trace" /\ pc = "done") => (~res2.err /\ res2.sym = res.sym)

(***************************************************************************)
(* Properties of ToStackTrace on constructed Symbols, checked under        *)
(* SpecTraceBuilt.                                                         *)
(***************************************************************************)
\* "(*" type_name ["[" type args "]"] ")." for the receiver of s
PointerReceiverForm(s) ==
    <<"(", "*">> \o s.Receiver[1].TypeName
    \o (IF Len(s.Receiver[1].TypeArgs) > 0
        THEN <<"[">> \o Join(s.Receiver[1].TypeArgs, <<",", " ">>) \o <<"]">>
        ELSE <<>>)
    \o <<")", ".">>

\* C18 (as claimed): ToStackTrace renders every method Symbol's receiver as
\* "(*" type_name ["[" type args "]"] ")." whatever is_pointer is, so two
\* Symbols that differ only in receiver.is_pointer give the same trace
\* string, and FromStackTrace of that string yields is_pointer = true.
C18_AlwaysPointerReceiver ==
    (codec = "tracebuild" /\ res.sym[1].Receiver # <<>>) =>
        /\ pc \in {"encoded", "encoded2", "done"} =>
              out = res.sym[1].PackagePath \o <<".">>
                    \o PointerReceiverForm(res.sym[1]) \o res.sym[1].Name
        /\ pc \in {"encoded2", "done"} => out2 = out
        /\ pc = "done" =>
              /\ ~res2.err
              /\ res2.sym[1].Receiver # <<>>
              /\ res2.sym[1].Receiver[1].IsPointer

C25_TraceMethodBeforeAnonymous ==
    (codec = "trace" /\ pc # "start") =>
        LET trace == StripFileInfo(input)
        IN  (TraceInit(trace) = <<>> /\ TraceMethod(trace) # <<>>) =>
                /\ ~res.err
                /\ res.sym[1] = TraceMethod(trace)[1]
                /\ res.sym[1].Receiver # <<>>
                /\ ~res.sym[1].IsAnonymous


\* the decoding of the located name agrees with the decoding of the bare
\* name in every field but Metadata.Position, which holds "file:line:col"
\* for SSA and nothing for the trace adapter
LocatedAgrees ==
    /\ ~res2.err
    /\ res2.sym[1] =
         [res.sym[1] EXCEPT !.Metadata.Position =
             IF codec = "ssaloc" THEN SliceFrom(out, Len(input) + 1)
             ELSE <<>>]

\* the bare name carries no location of its own: its decoding strips nothing
NoOwnLocation ==
    IF codec = "ssaloc" THEN ~ssaLocationPattern(input).ok
    ELSE StripFileInfo(input) = input

SSAInitSuffix == <<".", "i", "n", "i", "t", "#">>

TraceInitSuffix == <<".", "i", "n", "i", "t", ".", "f", "u", "n", "c">>

\* the lengths k for which s is a non-empty package path of length k, then
\* mark, then a non-empty digit string
InitForms(s, mark) ==
    {k \in 1..Len(s) :
        /\ MatchAt(s, mark, k)
        /\ AllDigits(SliceFrom(s, k + Len(mark)))}

InitSymbol(packagePath) ==
    [ZeroSymbol EXCEPT !.PackagePath = packagePath, !.Name = InitName,
                       !.IsInit = TRUE]

\* what the decoders make of "pkg.init#N" and "pkg.init.funcN": the init
\* Symbol of the whole package path, whatever N, and for SSA whatever
\* position the name carries
InitDecoded ==
    /\ (codec = "ssa" /\ pc # "start") =>
          LET loc == ssaLocationPattern(input)
              ssa == IF loc.ok THEN loc.m[1] ELSE input
          IN  \A k \in InitForms(ssa, SSAInitSuffix) :
                  /\ ~res.err
                  /\ res.sym[1] =
                       [InitSymbol(Slice(ssa, 0, k)) EXCEPT !.Metadata.Position =
                           IF loc.ok THEN loc.m[2] ELSE <<>>]
    /\ (codec = "trace" /\ pc # "start") =>
          \A k \in InitForms(StripFileInfo(input), TraceInitSuffix) :
              /\ ~res.err
              /\ res.sym[1] = InitSymbol(Slice(StripFileInfo(input), 0, k))

\* the Symbol last handed to an encoder is an init Symbol
InitEncoded(call) ==
    /\ codec = "encode"
    /\ pc = call
    /\ res.sym[1].IsInit

\* C27 (as claimed): init numbering is lost in both adapters.  Both decoders
\* map every numbered init name to the init Symbol of its whole package
\* path; ToSSA renders every init Symbol as pkg + ".init#1" and ToStackTrace
\* as pkg + ".init.func1", whatever its name.
C27_InitNumberingLost ==
    /\ InitDecoded
    /\ InitEncoded("ToSSA") =>
          out2 = res.sym[1].PackagePath \o SSAInitSuffix \o <<"1">>
    /\ InitEncoded("ToStackTrace") =>
          out2 = res.sym[1].PackagePath \o TraceInitSuffix \o <<"1">>

\* C27 (amended): the same, except that ToSSA appends "@" and the position
\* to pkg + ".init#1" when the init Symbol has a position.
C27_InitNumberingLostPositionKept ==
    /\ InitDecoded
    /\ InitEncoded("ToSSA") =>
          out2 = res.sym[1].PackagePath \o SSAInitSuffix \o <<"1">>
                 \o (IF res.sym[1].Metadata.Position # <<>>
                     THEN <<"@">> \o res.sym[1].Metadata.Position
                     ELSE <<>>)
    /\ InitEncoded("ToStackTrace") =>
          out2 = res.sym[1].PackagePath \o TraceInitSuffix \o <<"1">>

C27_Witness ==
    /\ codec = "trace"
    /\ pc = "encoded"
    /\ input = <<"a", "/", "b", ".", "c">> \o TraceInitSuffix \o <<"2">>
    /\ res.sym[1] = InitSymbol(<<"a", "/", "b", ".", "c">>)
    /\ out = <<"a", "/", "b", ".", "c">> \o TraceInitSuffix \o <<"1">>


\* the lengths k for which s is k bytes, then ".func", then a non-empty digit
\* string
AnonForms(s) ==
    {k \in 1..Len(s) :
        MatchAt(s, DotFunc, k) /\ AllDigits(SliceFrom(s, k + Len(DotFunc)))}

FuncTwoTrace == <<"m", "a", "i", "n", ".", "m", "a", "i", "n", ".", "f", "u", "n", "c", "2">>

\* C28: the trace decoder discards the anonymous numeral.  Every trace it
\* classifies as anonymous gets AnonIndex 0, its package path and name are
\* the two sides of the last '.' of AnonParent, and AnonParent is the text
\* before ".func<digits>" when the trace ends in that; ToStackTrace then
\* writes "func1", so "main.main.func2" comes back as "main.main.func1".
C28_TraceAnonNumeralDiscarded ==
    (codec = "trace" /\ pc # "start" /\ ~res.err /\ res.sym[1].IsAnonymous) =>
        LET sym   == res.sym[1]
            trace == StripFileInfo(input)
        IN  /\ sym.AnonIndex = 0
            /\ sym.AnonParent = sym.PackagePath \o <<".">> \o sym.Name
            /\ ~Contains(sym.Name, <<".">>)
            /\ \A k \in AnonForms(trace) : sym.AnonParent = Slice(trace, 0, k)
            /\ pc \in {"encoded", "done"} =>
                  out = sym.AnonParent \o DotFunc \o <<"1">>
            /\ (input = FuncTwoTrace /\ pc \in {"encoded", "done"}) =>
                  out = Slice(FuncTwoTrace, 0, 14) \o <<"1">>

C28_Witness ==
    /\ codec = "trace"
    /\ pc = "encoded"
    /\ input = FuncTwoTrace
    /\ res.sym[1].IsAnonymous
    /\ res.sym[1].AnonIndex = 0
    /\ out # input


\* the numeral both adapters write for an index: the index when positive,
\* else 1
NumeralOf(index) == IF index > 0 THEN Itoa(index) ELSE <<"1">>

\* C30: ToStackTrace builds the output for an anonymous Symbol from
\* AnonParent alone: AnonParent + ".func" + numeral, whatever the package
\* path and name.  With an empty AnonParent the output is empty, where ToSSA
\* writes pkg.name$N; for every anonymous Symbol Parse returned the output
\* is non-empty and starts with the package path and a '.'.
C30_StackTraceFromAnonParent ==
    (pc = "converted" /\ res.sym[1].IsAnonymous) =>
        LET sym == res.sym[1]
        IN  /\ sym.AnonParent # <<>> =>
                  out2 = sym.AnonParent \o DotFunc \o NumeralOf(sym.AnonIndex)
            /\ sym.AnonParent = <<>> =>
                  /\ out2 = <<>>
                  /\ sym.Receiver = <<>> =>
                        out = sym.PackagePath \o <<".">> \o sym.Name \o <<"$">>
                              \o NumeralOf(sym.AnonIndex)
                              \o (IF sym.Metadata.Position # <<>>
                                  THEN <<"@">> \o sym.Metadata.Position
                                  ELSE <<>>)
            /\ codec = "parse" =>
                  /\ out2 # <<>>
                  /\ HasPrefix(out2, sym.PackagePath \o <<".">>)

C30_Witness ==
    /\ pc = "converted"
    /\ codec = "build"
    /\ res.sym[1] = TestedSymbols[2]
    /\ out2 = <<>>
    /\ out # <<>>


(***************************************************************************)
(* Properties of parseTypeArgs, checked under SpecTypeArgs.                *)
(***************************************************************************)
\* the commas of s that no '[' and no '(' before them leaves open
TopLevelCommas(s) ==
    {i \in 1..Len(s) :
        /\ s[i] = ","
        /\ CountIn(s, i - 1, "[") = CountIn(s, i - 1, "]")
        /\ CountIn(s, i - 1, "(") = CountIn(s, i - 1, ")")}

\* the pieces of s between the positions in cuts, from position start on
RECURSIVE PiecesFrom(_, _, _)
PiecesFrom(s, start, cuts) ==
    LET ahead == {c \in cuts : c >= start}
    IN  IF ahead = {} THEN <<SubSeq(s, start, Len(s))>>
        ELSE LET c == CHOOSE x \in ahead : \A y \in ahead : x <= y
             IN  <<SubSeq(s, start, c - 1)>> \o PiecesFrom(s, c + 1, cuts)

NonEmptyString(x) == x # <<>>

\* the list the nested-list rule prescribes for s
TopLevelElements(s) ==
    LET pieces == PiecesFrom(s, 1, TopLevelCommas(s))
    IN  SelectSeq([i \in 1..Len(pieces) |-> TrimSpace(pieces[i])], NonEmptyString)

TransformTypeArgs ==
    <<<<"M", "a", "p", "[", "K", ",", " ", "V", "]">>,
      <<"L", "i", "s", "t", "[", "T", "]">>>>

\* C7: parseTypeArgs splits at a comma exactly when the '[' ']' depth and
\* the '(' ')' depth are both zero, trims each element (an element that is
\* empty after trimming is left out), and returns the empty sequence for
\* empty input; Parse gives the bracketed list after a name the same
\* elements, so "pkg.Transform[Map[K, V], List[T]]" has the type arguments
\* "Map[K, V]" and "List[T]".
C7_NestedListSplitting ==
    /\ (codec = "typeargs" /\ pc = "done") =>
          /\ out = TopLevelElements(input)
          /\ input = <<>> => out = <<>>
    /\ (codec = "parse" /\ pc = "decoded" /\ HasPrefix(input, GenericPrefix)) =>
          res.sym[1].TypeArgs
             = TopLevelElements(Slice(input, Len(GenericPrefix), Len(input) - 1))
    /\ (codec = "parse" /\ pc = "decoded" /\ input = DocumentedInputs[16]) =>
          res.sym[1].TypeArgs = TransformTypeArgs

\* C7 witness: a list with a comma inside brackets or parentheses and a
\* comma outside has been split at the outer comma only.
C7_Witness ==
    /\ codec = "typeargs" /\ pc = "done"
    /\ Cardinality(TopLevelCommas(input)) = 1
    /\ Cardinality(Occurrences(input, <<",">>)) >= 3
    /\ Len(out) = 2

=============================================================================
